---- MODULE Spec2Model ----
(***************************************************************************)
(* A model of src/main.py: the resilient request executors                 *)
(* (pd_get_with_retry, pd_request_with_retry, pd_get_json_with_retry), the *)
(* global throttle (pd_throttle), the cursor-pagination loops, the        *)
(* organization enrichment patch, the merge of two organizations, the      *)
(* reconciliation rules (_reconcile), the jobs that run them and the       *)
(* database tables the jobs share.                                         *)
(*                                                                         *)
(* Time is an integer number of milliseconds.  A float product d * 1.8 is  *)
(* modelled as (d * 18) \div 10.  A coroutine is a record with a position  *)
(* `pc`; a position in which the coroutine awaits a timer or the network   *)
(* carries the time `wake` at which the await completes.  Time moves only  *)
(* when no coroutine is ready to run, as in the asyncio event loop.        *)
(***************************************************************************)
EXTENDS Integers, Sequences, FiniteSets, TLC

VARIABLES
  now,              \* time.monotonic(), in ms
  ex,               \* executor calls in progress: caller -> record
  REQUEST_COUNTER,  \* REQUEST_COUNTER["total"]
  task,             \* fetch_one coroutines of fetch_person_details_many: id -> record
  GLOBAL_PD_LOCK,   \* the task that holds _GLOBAL_PD_LOCK, 0 when free
  GLOBAL_PD_NEXT_TS,\* _GLOBAL_PD_NEXT_TS
  grants,           \* the times at which pd_throttle returned, in order
  pg,               \* one call of a cursor-pagination loop
  en,               \* one enrichment of a winner organization by a loser
  mg,               \* merge_organizations_v2_only: its calls and the remote state
  rc,               \* _reconcile: the table it works on and its delete log
  jb,               \* a Job, the coroutine that runs it and the polls of the client
  tb                \* the tables of one prefix and the jobs that use them

execVars == <<ex, REQUEST_COUNTER>>
rateVars == <<task, GLOBAL_PD_LOCK, GLOBAL_PD_NEXT_TS, grants>>
vars == <<now, execVars, rateVars, pg, en, mg, rc, jb, tb>>

\* What the executor and the fetch_one tasks leave alone.
notExec == <<rateVars, pg, en, mg, rc, jb, tb>>
notRate == <<pg, en, mg, rc, jb, tb>>
notPage == <<now, execVars, rateVars, en, mg, rc, jb, tb>>
notEnrich == <<now, execVars, rateVars, pg, mg, rc, jb, tb>>
notMerge == <<now, execVars, rateVars, pg, en, rc, jb, tb>>
notReconcile == <<now, execVars, rateVars, pg, en, mg, jb, tb>>
notJob == <<now, execVars, rateVars, pg, en, mg, rc, tb>>
notTables == <<now, execVars, rateVars, pg, en, mg, rc, jb>>

Min(a, b) == IF a <= b THEN a ELSE b
Max(a, b) == IF a >= b THEN a ELSE b

(***************************************************************************)
(* Program constants of the executors (seconds of the source, in ms).      *)
(***************************************************************************)
BaseDelay == 800
MaxDelay == 30000
RequestTimeout == 30000
WaitForSlack == 2000
JitterRetryable == 350
JitterOther == 200
JsonSleepCap == 10000
BackoffTenths == 18
BackoffTenthsJsonOther == 16

\* The three executors.
Variants == {"get", "request", "getjson"}

\* The (variant, retries, max_total_time) combinations the call sites use.
CallConfigs ==
  { [variant |-> "get", retries |-> 8, budget |-> 120000],
    [variant |-> "request", retries |-> 8, budget |-> 120000],
    [variant |-> "getjson", retries |-> 10, budget |-> 180000] }

\* What the surroundings of one call do to it: the value random.uniform
\* returns (its lowest or its highest), and the time coroutines outside the
\* model keep the caller waiting at `async with sem` (the semaphores are
\* shared by the whole process): none, or one full request of another caller.
Environments ==
  { [jitter_max |-> j, sem_wait |-> d] :
      j \in BOOLEAN, d \in {0, RequestTimeout + WaitForSlack} }

QuietEnvironment == [jitter_max |-> FALSE, sem_wait |-> 0]

\* Bounds on the answers of one call: requests that run into the request
\* timeout, and 429/5xx answers that carry a Retry-After header.
MaxSlow == 1
MaxHinted == 1

\* Status codes the remote API answers with.
Statuses == {200, 204, 302, 400, 401, 403, 404, 409, 422, 429, 503}

\* Retry-After values (ms) of a 429/5xx answer; 0 is "no header".
Hints == {0, 60000}

\* Time a request that is answered takes.
ResponseTimes == {100}

\* Permits of PD_SEM as bound into the defaults of the executors.
PdSemGet == 1
PdSemJson == 3

(***************************************************************************)
(* Status classification of each executor.                                 *)
(***************************************************************************)
IsSuccess(variant, status) ==
  IF variant = "request" THEN status >= 200 /\ status <= 299 ELSE status = 200

IsClientError(variant, status) ==
  IF variant = "request"
    THEN status \in {400, 401, 403, 404, 409, 422}
    ELSE status \in {400, 401, 403, 404}

IsRetryable(status) == status = 429 \/ (status >= 500 /\ status <= 599)

\* _retry_after_seconds: the header as a number, 0 when absent.
RetryAfter(hint) == hint

\* delay = min(delay * factor, 30.0)
NextDelay(delay, tenths) == Min((delay * tenths) \div 10, MaxDelay)

\* A sleep that forgets the Retry-After header.
RetryableSleepNoHint(delay, ra, jitter) == Min(delay + jitter, MaxDelay)

\* sleep_s of the 429/5xx branch
RetryableSleep(delay, ra, jitter) == Min(Max(delay, ra) + jitter, MaxDelay)

\* sleep of the "other status" branch
OtherSleep(variant, delay, jitter) ==
  IF variant = "getjson" THEN Min(delay + jitter, JsonSleepCap) ELSE delay + jitter

\* sleep of the two except branches
ExcSleep(variant, delay, jitter) ==
  IF variant = "getjson" THEN Min(delay + jitter, JsonSleepCap) ELSE delay + jitter

OtherTenths(variant) ==
  IF variant = "getjson" THEN BackoffTenthsJsonOther ELSE BackoffTenths

\* last_err after an "other status" answer: only pd_get_json_with_retry records it
OtherLastErr(variant, status, old) ==
  IF variant = "getjson" THEN "HTTP" ELSE old

(***************************************************************************)
(* One executor call.  Positions: "top" (head of the for loop), "sem"      *)
(* (waiting at `async with sem`), "http" (awaiting the answer), "sleep"    *)
(* (backoff sleep), "done".                                                *)
(***************************************************************************)
NewCall(cfg, env, t) ==
  [ variant |-> cfg.variant, retries |-> cfg.retries, budget |-> cfg.budget,
    env |-> env, slows |-> 0, hinted |-> 0,
    pc |-> "top", attempt |-> 1, delay |-> BaseDelay, t0 |-> t, wake |-> t,
    slow |-> FALSE, last_err |-> "None", result |-> "none", status |-> 0,
    requests |-> 0,
    \* history of the call, read by the properties only
    slept |-> 0, hint |-> 0, prev_delay |-> BaseDelay, answer |-> "none",
    only_retryable |-> TRUE, issued_at |-> t ]

Callers == DOMAIN ex

SemPermits(variant) == IF variant = "getjson" THEN PdSemJson ELSE PdSemGet

SameSem(v1, v2) == (v1 = "getjson") = (v2 = "getjson")

\* The modelled callers that hold a permit of w's semaphore.
Holders(w) ==
  { v \in Callers : ex[v].pc = "http" /\ SameSem(ex[v].variant, ex[w].variant) }

\* A coroutine that runs as soon as the event loop gets to it.
Runnable(w) == ex[w].pc = "top"

Tasks == DOMAIN task

\* concurrency of fetch_person_details_many, and the interval fetch_one
\* passes to pd_throttle
Concurrency == 2
ThrottleInterval == 300

\* The tasks inside `async with sem` of fetch_one.
InFetchSem == { t \in Tasks : task[t].pc \in {"lock", "throttle_sleep", "exec"} }

TaskRunnable(t) ==
  \/ task[t].pc = "start" /\ Cardinality(InFetchSem) < Concurrency
  \/ task[t].pc = "lock" /\ GLOBAL_PD_LOCK = 0
  \/ task[t].pc = "exec" /\ t \in Callers /\ ex[t].pc = "done"

TaskPending(t) == task[t].pc = "throttle_sleep"

AnyRunnable ==
  \/ \E w \in Callers : Runnable(w)
  \/ \E t \in Tasks : TaskRunnable(t)

\* A coroutine whose await completes once the clock reaches its wake time.
Pending(w) ==
  \/ ex[w].pc \in {"http", "sleep"}
  \/ ex[w].pc = "sem" /\ Cardinality(Holders(w)) < SemPermits(ex[w].variant)

\* The times at which the awaits in progress complete.
WakeTimes ==
  { ex[v].wake : v \in { u \in Callers : Pending(u) } }
    \cup { task[t].wake : t \in { u \in Tasks : TaskPending(u) } }

\* The event loop sleeps until the earliest of them, and only when nothing is
\* ready to run.
Earliest(t) == ~AnyRunnable /\ \A x \in WakeTimes : t <= x

\* w's await is the next one to complete.
TimedReady(w) == Pending(w) /\ Earliest(ex[w].wake)

Clock(w) == Max(now, ex[w].wake)

\* A loop that runs once too often: range(1, retries + 2).
LoopOverOffByOne(c) == c.attempt > c.retries + 1

\* for attempt in range(1, retries + 1) is over: raise / return FAILED
LoopOver(c) == c.attempt > c.retries

\* if (time.monotonic() - t0) > max_total_time
OverBudget(c, t) == t - c.t0 > c.budget

\* random.uniform(0, most)
Jitter(c, most) == IF c.env.jitter_max THEN most ELSE 0

\* inc(...) is called by pd_get_with_retry only
Counted(variant) == IF variant = "get" THEN 1 ELSE 0

ExExhausted(w) ==
  /\ ex[w].pc = "top"
  /\ LoopOver(ex[w])
  /\ ex' = [ex EXCEPT ![w].pc = "done", ![w].result = "failed"]
  /\ UNCHANGED <<now, REQUEST_COUNTER, notExec>>

ExBudgetExceeded(w) ==
  /\ ex[w].pc = "top"
  /\ ~LoopOver(ex[w])
  /\ OverBudget(ex[w], now)
  /\ ex' = [ex EXCEPT ![w].pc = "done", ![w].result = "timeout"]
  /\ UNCHANGED <<now, REQUEST_COUNTER, notExec>>

ExBegin(w) ==
  /\ ex[w].pc = "top"
  /\ ~LoopOver(ex[w])
  /\ ~OverBudget(ex[w], now)
  /\ ex' = [ex EXCEPT ![w].pc = "sem", ![w].wake = now + ex[w].env.sem_wait]
  /\ REQUEST_COUNTER' = REQUEST_COUNTER + Counted(ex[w].variant)
  /\ UNCHANGED <<now, notExec>>

\* the semaphore is entered and client.get / client.request is started
ExSend(w, times, maySlow) ==
  /\ ex[w].pc = "sem"
  /\ TimedReady(w)
  /\ now' = Clock(w)
  /\ \E slow \in (IF maySlow /\ ex[w].slows < MaxSlow THEN BOOLEAN ELSE {FALSE}) :
     \E t \in (IF slow THEN {RequestTimeout + WaitForSlack} ELSE times) :
       ex' = [ex EXCEPT ![w].pc = "http", ![w].wake = now' + t, ![w].slow = slow,
                        ![w].slows = @ + (IF slow THEN 1 ELSE 0),
                        ![w].requests = @ + 1, ![w].issued_at = now']
  /\ UNCHANGED <<REQUEST_COUNTER, notExec>>

Answered(w) ==
  /\ ex[w].pc = "http"
  /\ ~ex[w].slow
  /\ TimedReady(w)
  /\ now' = Clock(w)
  /\ UNCHANGED <<REQUEST_COUNTER, notExec>>

ExSuccess(w, statuses) ==
  /\ Answered(w)
  /\ \E s \in statuses :
       /\ IsSuccess(ex[w].variant, s)
       /\ \E json_ok \in (IF ex[w].variant = "getjson" THEN BOOLEAN ELSE {TRUE}) :
            ex' = [ex EXCEPT ![w].pc = "done", ![w].status = s, ![w].answer = "status",
                             ![w].result = IF json_ok THEN "response" ELSE "json_error",
                             ![w].only_retryable = FALSE]

ExClientError(w, statuses) ==
  /\ Answered(w)
  /\ \E s \in statuses :
       /\ ~IsSuccess(ex[w].variant, s)
       /\ IsClientError(ex[w].variant, s)
       /\ ex' = [ex EXCEPT ![w].pc = "done", ![w].status = s, ![w].answer = "status",
                           ![w].result = "response", ![w].only_retryable = FALSE]

ExRetryable(w, statuses, hints) ==
  /\ Answered(w)
  /\ \E s \in statuses, h \in hints :
       /\ ~IsSuccess(ex[w].variant, s)
       /\ ~IsClientError(ex[w].variant, s)
       /\ IsRetryable(s)
       /\ h # 0 => ex[w].hinted < MaxHinted
       /\ LET j == Jitter(ex[w], JitterRetryable)
              sl == RetryableSleep(ex[w].delay, RetryAfter(h), j) IN
            ex' = [ex EXCEPT ![w].pc = "sleep", ![w].status = s, ![w].answer = "status",
                             ![w].wake = now' + sl, ![w].slept = sl, ![w].hint = h,
                             ![w].hinted = @ + (IF h # 0 THEN 1 ELSE 0),
                             ![w].prev_delay = ex[w].delay,
                             ![w].delay = NextDelay(ex[w].delay, BackoffTenths)]

ExOtherStatus(w, statuses) ==
  /\ Answered(w)
  /\ \E s \in statuses :
       /\ ~IsSuccess(ex[w].variant, s)
       /\ ~IsClientError(ex[w].variant, s)
       /\ ~IsRetryable(s)
       /\ LET j == Jitter(ex[w], JitterOther)
              sl == OtherSleep(ex[w].variant, ex[w].delay, j) IN
            ex' = [ex EXCEPT ![w].pc = "sleep", ![w].status = s, ![w].answer = "status",
                             ![w].wake = now' + sl, ![w].slept = sl, ![w].hint = 0,
                             ![w].prev_delay = ex[w].delay,
                             ![w].delay = NextDelay(ex[w].delay, OtherTenths(ex[w].variant)),
                             ![w].last_err = OtherLastErr(ex[w].variant, s, ex[w].last_err),
                             ![w].only_retryable = FALSE]

\* except Exception (a transport error, answered within the request timeout)
ExException(w) ==
  /\ Answered(w)
  /\ LET j == Jitter(ex[w], JitterRetryable)
         sl == ExcSleep(ex[w].variant, ex[w].delay, j) IN
         ex' = [ex EXCEPT ![w].pc = "sleep", ![w].answer = "exc",
                          ![w].wake = now' + sl, ![w].slept = sl, ![w].hint = 0,
                          ![w].prev_delay = ex[w].delay,
                          ![w].delay = NextDelay(ex[w].delay, BackoffTenths),
                          ![w].last_err = "EXC", ![w].only_retryable = FALSE]

\* except asyncio.TimeoutError (wait_for gives up after request_timeout + 2)
ExReqTimeout(w) ==
  /\ ex[w].pc = "http"
  /\ ex[w].slow
  /\ TimedReady(w)
  /\ now' = Clock(w)
  /\ LET j == Jitter(ex[w], JitterRetryable)
         sl == ExcSleep(ex[w].variant, ex[w].delay, j) IN
         ex' = [ex EXCEPT ![w].pc = "sleep", ![w].answer = "timeout",
                          ![w].wake = now' + sl, ![w].slept = sl, ![w].hint = 0,
                          ![w].prev_delay = ex[w].delay,
                          ![w].delay = NextDelay(ex[w].delay, BackoffTenths),
                          ![w].last_err = "REQ_TIMEOUT", ![w].only_retryable = FALSE]
  /\ UNCHANGED <<REQUEST_COUNTER, notExec>>

\* asyncio.sleep returns; the for loop takes the next attempt
ExWake(w) ==
  /\ ex[w].pc = "sleep"
  /\ TimedReady(w)
  /\ now' = Clock(w)
  /\ ex' = [ex EXCEPT ![w].pc = "top", ![w].attempt = @ + 1,
                      ![w].status = 0, ![w].answer = "none", ![w].slept = 0,
                      ![w].hint = 0, ![w].prev_delay = ex[w].delay]
  /\ UNCHANGED <<REQUEST_COUNTER, notExec>>

(***************************************************************************)
(* SpecExec: one call of one executor, for every call-site configuration   *)
(* and every series of answers.                                            *)
(***************************************************************************)
NoTasks ==
  /\ task = <<>>
  /\ GLOBAL_PD_LOCK = 0
  /\ GLOBAL_PD_NEXT_TS = 0
  /\ grants = <<>>

\* No pagination call is in progress.
NoPage == pg = [pc |-> "idle"]

\* No enrichment is in progress.
NoEnrich == en = [pc |-> "idle"]

\* No merge is in progress.
NoMerge == mg = [pc |-> "idle"]

\* No reconciliation is in progress.
NoReconcile == rc = [pc |-> "idle"]

\* No job exists.
NoJob == jb = [pc |-> "idle"]
NoTables == tb = [pc |-> "idle"]

InitExec ==
  /\ now = 0
  /\ REQUEST_COUNTER = 0
  /\ NoTasks
  /\ NoPage
  /\ NoEnrich
  /\ NoMerge
  /\ NoReconcile
  /\ NoJob
  /\ NoTables
  /\ \E cfg \in CallConfigs, env \in Environments :
       ex = [w \in {1} |-> NewCall(cfg, env, 0)]

NextExec ==
  \/ \E w \in Callers : ExExhausted(w)
  \/ \E w \in Callers : ExBudgetExceeded(w)
  \/ \E w \in Callers : ExBegin(w)
  \/ \E w \in Callers : ExSend(w, ResponseTimes, TRUE)
  \/ \E w \in Callers : ExSuccess(w, Statuses)
  \/ \E w \in Callers : ExClientError(w, Statuses)
  \/ \E w \in Callers : ExRetryable(w, Statuses, Hints)
  \/ \E w \in Callers : ExOtherStatus(w, Statuses)
  \/ \E w \in Callers : ExException(w)
  \/ \E w \in Callers : ExReqTimeout(w)
  \/ \E w \in Callers : ExWake(w)

SpecExec == InitExec /\ [][NextExec]_vars

(***************************************************************************)
(* fetch_person_details_many: NumTasks fetch_one coroutines, at most        *)
(* Concurrency of them inside their semaphore; each calls pd_throttle(0.3)  *)
(* and then pd_get_with_retry.  Positions of a task: "start" (before        *)
(* `async with sem`), "lock" (before `async with _GLOBAL_PD_LOCK`),         *)
(* "throttle_sleep" (in asyncio.sleep(wait), holding the lock), "exec" (in  *)
(* pd_get_with_retry), "done".                                              *)
(***************************************************************************)
NumTasks == 3

\* The number of 429 answers the remote API gives to one batch.
MaxBusy == 2

\* fetch_one's call of pd_get_with_retry: default retries, max_total_time=240
FetchOneConfig == [variant |-> "get", retries |-> 8, budget |-> 240000]

\* Statuses the remote API answers the person requests with.
FetchStatuses == {200, 404, 429}

\* A limiter that computes the watermark from the time read before the sleep.
NextTsStale(entered, woke, min_interval) == entered + min_interval

\* _GLOBAL_PD_NEXT_TS = time.monotonic() + min_interval
NextTs(entered, woke, min_interval) == woke + min_interval

\* wait = _GLOBAL_PD_NEXT_TS - now
ThrottleWait(t) == GLOBAL_PD_NEXT_TS - t

\* pd_throttle returns to task t, which calls pd_get_with_retry
Granted(t, entered, woke) ==
  /\ GLOBAL_PD_NEXT_TS' = NextTs(entered, woke, ThrottleInterval)
  /\ GLOBAL_PD_LOCK' = 0
  /\ grants' = Append(grants, woke)
  /\ task' = [task EXCEPT ![t].pc = "exec"]
  /\ ex' = (t :> NewCall(FetchOneConfig, QuietEnvironment, woke)) @@ ex
  /\ UNCHANGED <<REQUEST_COUNTER, notRate>>

\* async with sem (of fetch_person_details_many)
TaskEnter(t) ==
  /\ task[t].pc = "start"
  /\ Cardinality(InFetchSem) < Concurrency
  /\ task' = [task EXCEPT ![t].pc = "lock"]
  /\ UNCHANGED <<now, execVars, GLOBAL_PD_LOCK, GLOBAL_PD_NEXT_TS, grants, notRate>>

\* pd_throttle, wait > 0: the lock is taken and kept over asyncio.sleep(wait)
ThrottleSleep(t) ==
  /\ task[t].pc = "lock"
  /\ GLOBAL_PD_LOCK = 0
  /\ ThrottleWait(now) > 0
  /\ GLOBAL_PD_LOCK' = t
  /\ task' = [task EXCEPT ![t].pc = "throttle_sleep", ![t].entered = now,
                          ![t].wake = now + ThrottleWait(now)]
  /\ UNCHANGED <<now, execVars, GLOBAL_PD_NEXT_TS, grants, notRate>>

\* pd_throttle, wait <= 0: no sleep
ThrottleNoWait(t) ==
  /\ task[t].pc = "lock"
  /\ GLOBAL_PD_LOCK = 0
  /\ ThrottleWait(now) <= 0
  /\ Granted(t, now, now)
  /\ UNCHANGED now

\* asyncio.sleep(wait) returns
ThrottleWake(t) ==
  /\ task[t].pc = "throttle_sleep"
  /\ Earliest(task[t].wake)
  /\ now' = Max(now, task[t].wake)
  /\ Granted(t, task[t].entered, now')

\* pd_get_with_retry has returned or raised: fetch_one leaves its semaphore
TaskFinish(t) ==
  /\ task[t].pc = "exec"
  /\ t \in Callers
  /\ ex[t].pc = "done"
  /\ task' = [task EXCEPT ![t].pc = "done"]
  /\ UNCHANGED <<now, execVars, GLOBAL_PD_LOCK, GLOBAL_PD_NEXT_TS, grants, notRate>>

\* The 429 answers given so far.
BusySoFar ==
  Cardinality({ w \in Callers : ex[w].pc = "sleep" })
    + Cardinality({ w \in Callers : ex[w].attempt >= 2 })
    + Cardinality({ w \in Callers : ex[w].attempt >= 3 })

InitRate ==
  /\ now = 0
  /\ REQUEST_COUNTER = 0
  /\ ex = <<>>
  /\ task = [t \in 1..NumTasks |-> [pc |-> "start", entered |-> 0, wake |-> 0]]
  /\ GLOBAL_PD_LOCK = 0
  /\ GLOBAL_PD_NEXT_TS = 0
  /\ grants = <<>>
  /\ NoPage
  /\ NoEnrich
  /\ NoMerge
  /\ NoReconcile
  /\ NoJob
  /\ NoTables

NextRate ==
  \/ \E t \in Tasks : TaskEnter(t)
  \/ \E t \in Tasks : ThrottleSleep(t)
  \/ \E t \in Tasks : ThrottleNoWait(t)
  \/ \E t \in Tasks : ThrottleWake(t)
  \/ \E t \in Tasks : TaskFinish(t)
  \/ \E w \in Callers : ExBegin(w)
  \/ \E w \in Callers : ExSend(w, ResponseTimes, FALSE)
  \/ \E w \in Callers : ExSuccess(w, FetchStatuses)
  \/ \E w \in Callers : ExClientError(w, FetchStatuses)
  \/ \E w \in Callers : BusySoFar < MaxBusy /\ ExRetryable(w, FetchStatuses, {0})
  \/ \E w \in Callers : ExWake(w)

SpecRate == InitRate /\ [][NextRate]_vars

(***************************************************************************)
(* The cursor-pagination loops.  One step is one pass of `while True`: the  *)
(* page request (an executor call, seen here by its result) and what the    *)
(* loop does with the answer.  A cursor is a number 1..NumCursors, 0 is "no *)
(* cursor" (None); a record id is a number 1..NumIds, 0 is an item without  *)
(* an id (for organizations: without a name).                               *)
(***************************************************************************)
NumCursors == 2
NumIds == 2
MaxPageLen == 2

\* A bound on the page requests of one call, for the loops that have none.
MaxPageRequests == 4

\* A small max_pages argument (person_ids_in_filter_v2 passes 200).
MaxPagesArg == 2

\* max_empty_growth of fetch_persons_by_filter_id_v2
MaxEmptyGrowth == 2

Cursors == 1..NumCursors

PageKinds == {"iter_v2", "fetch_persons", "stream_ids", "stream_ids_cursor", "stream_orgs"}

\* The loops that keep the cursors they have seen.
GuardedKinds == {"iter_v2", "fetch_persons", "stream_ids"}

\* The loops that take a max_pages argument and count their pages.
CountingKinds == {"fetch_persons", "stream_ids"}

\* The loops that call pd_get_with_retry, which raises.
RaisingKinds == {"fetch_persons", "stream_ids"}

\* The `data` arrays a page can carry.
Pages ==
  UNION { [1..n -> 0..NumIds] : n \in 0..MaxPageLen }

\* The items of a page that carry an id, as a sequence.
RECURSIVE WithId(_)
WithId(data) ==
  IF data = <<>> THEN <<>>
  ELSE IF Head(data) = 0 THEN WithId(Tail(data))
  ELSE <<Head(data)>> \o WithId(Tail(data))

Range(f) == { f[i] : i \in DOMAIN f }

\* Every item with an id is appended, seen before or not.
AddEvery(out, data) == out \o WithId(data)

\* fetch_persons_by_filter_id_v2: out after the items of a page were added,
\* each id once.  seen_ids holds str(id); the ids of a collection are
\* integers, and str gives different integers different strings.
RECURSIVE AddUnseen(_, _)
AddUnseen(out, data) ==
  IF data = <<>> THEN out
  ELSE IF Head(data) = 0 \/ Head(data) \in Range(out)
    THEN AddUnseen(out, Tail(data))
    ELSE AddUnseen(Append(out, Head(data)), Tail(data))

\* The next cursor a loop reads from additional_data: stream_organizations_by_filter
\* reads additional_data.next_cursor only, the others also
\* additional_data.pagination.next_cursor.
NextCursorOf(kind, top, nested) ==
  IF top # 0 THEN top
  ELSE IF kind = "stream_orgs" THEN 0 ELSE nested

NewPage(kind, max_pages) ==
  [ kind |-> kind, max_pages |-> max_pages, pc |-> "loop", cursor |-> 0,
    seen |-> {}, out |-> <<>>, yielded |-> {}, pages |-> 0,
    no_growth_streak |-> 0, requests |-> 0, result |-> "none",
    \* history: the cursors sent, in order, and the cursors the answers named
    sent |-> <<>>, returned |-> {},
    \* history of fetch_persons_by_filter_id_v2: the pages answered last, in
    \* a row, that named no id for the first time; the ids the answer to the
    \* last request named for the first time, in the order of the page;
    \* whether a page named an id again
    quiet |-> 0, fresh |-> <<>>, repeated |-> FALSE ]

\* The loop ends: the generator is exhausted, or the list is returned.
PgStop(p) == [p EXCEPT !.pc = "done", !.result = "returned"]

\* The loop goes on with cursor nxt.
PgGoOn(p, nxt) == [p EXCEPT !.cursor = nxt]

\* A guard that lets every cursor pass.
IsRepeatedNever(p, nxt) == FALSE

\* if nxt == cursor or nxt in seen
IsRepeated(p, nxt) == nxt = p.cursor \/ nxt \in p.seen

\* _iter_v2_collection after a 200 answer with a payload
IterV2Page(p, data, nxt) ==
  LET q == [p EXCEPT !.yielded = @ \cup Range(data)] IN
    IF nxt = 0 THEN PgStop(q)
    ELSE IF IsRepeated(q, nxt) THEN PgStop(q)
    ELSE PgGoOn([q EXCEPT !.seen = @ \cup {nxt}], nxt)

\* A streak that a page with new ids does not reset.
NoGrowthStreakKept(streak, added) ==
  IF added = 0 THEN streak + 1 ELSE streak

\* if added == 0: no_growth_streak += 1, else: no_growth_streak = 0
NoGrowthStreak(streak, added) ==
  IF added = 0 THEN streak + 1 ELSE 0

\* The places of data at which an id appears that out does not hold and
\* that no earlier place of data names.
FirstPlaces(out, data) ==
  { i \in DOMAIN data :
      /\ data[i] # 0
      /\ data[i] \notin Range(out)
      /\ \A k \in 1..(i - 1) : data[k] # data[i] }

\* The ids that data names and out does not hold, each once, in the order in
\* which data names them first.
FirstNamed(out, data) ==
  LET places == FirstPlaces(out, data) IN
    [ n \in 1..Cardinality(places) |->
        data[CHOOSE i \in places : Cardinality({ k \in places : k <= i }) = n] ]

\* data names an id that out holds, or names an id twice.
NamesAgain(out, data) ==
  \/ \E i \in DOMAIN data : data[i] # 0 /\ data[i] \in Range(out)
  \/ \E i, j \in DOMAIN data : i < j /\ data[i] # 0 /\ data[i] = data[j]

\* fetch_persons_by_filter_id_v2 after a 200 answer
FetchPersonsPage(p, data, nxt) ==
  LET out2 == AddUnseen(p.out, data)
      added == Len(out2) - Len(p.out)
      streak == NoGrowthStreak(p.no_growth_streak, added)
      first == FirstNamed(p.out, data)
      q == [p EXCEPT !.out = out2, !.no_growth_streak = streak,
                     !.quiet = IF first = <<>> THEN @ + 1 ELSE 0,
                     !.fresh = first,
                     !.repeated = @ \/ NamesAgain(p.out, data)]
  IN
    IF streak >= MaxEmptyGrowth THEN PgStop(q)
    ELSE IF nxt = 0 THEN PgStop(q)
    ELSE IF IsRepeated(q, nxt) THEN PgStop(q)
    ELSE PgGoOn([q EXCEPT !.seen = @ \cup {nxt}], nxt)

\* stream_person_ids_by_filter after a 200 answer
StreamIdsPage(p, data, nxt) ==
  IF data = <<>> THEN PgStop(p)
  ELSE
    LET q == [p EXCEPT !.yielded = @ \cup Range(WithId(data))] IN
      IF nxt = 0 THEN PgStop(q)
      ELSE IF IsRepeated(q, nxt) THEN PgStop(q)
      ELSE PgGoOn([q EXCEPT !.seen = @ \cup {nxt}], nxt)

\* stream_person_ids_by_filter_cursor and stream_organizations_by_filter
\* after a 200 answer with a payload
StreamPage(p, data, nxt) ==
  IF data = <<>> THEN PgStop(p)
  ELSE
    LET q == [p EXCEPT !.yielded = @ \cup Range(WithId(data))] IN
      IF nxt = 0 THEN PgStop(q) ELSE PgGoOn(q, nxt)

PageStep(p, data, nxt) ==
  CASE p.kind = "iter_v2" -> IterV2Page(p, data, nxt)
    [] p.kind = "fetch_persons" -> FetchPersonsPage(p, data, nxt)
    [] p.kind = "stream_ids" -> StreamIdsPage(p, data, nxt)
    [] OTHER -> StreamPage(p, data, nxt)

\* The request of this pass is sent with the current cursor.
PgSent(p) ==
  [p EXCEPT !.requests = @ + 1, !.sent = Append(@, p.cursor), !.fresh = <<>>,
            !.pages = IF p.kind \in CountingKinds THEN @ + 1 ELSE @]

\* if max_pages is not None and pages > max_pages (max_pages 0 is None)
OverMaxPages(p) ==
  p.kind \in CountingKinds /\ p.max_pages # 0 /\ p.pages + 1 > p.max_pages

PgLooping ==
  /\ pg.pc = "loop"
  /\ UNCHANGED notPage

PgMaxPages ==
  /\ PgLooping
  /\ OverMaxPages(pg)
  /\ pg' = PgStop([pg EXCEPT !.pages = @ + 1])

\* the page request is answered 200 with a payload
PgPage ==
  /\ PgLooping
  /\ ~OverMaxPages(pg)
  /\ pg.requests < MaxPageRequests
  /\ \E data \in Pages, top \in 0..NumCursors, nested \in 0..NumCursors :
       LET nxt == NextCursorOf(pg.kind, top, nested)
       IN pg' = PageStep([PgSent(pg) EXCEPT !.returned = @ \cup ({nxt} \ {0})], data, nxt)

\* the page request ends with a status other than 200 (or, for the loops on
\* pd_get_json_with_retry, with an error or an empty payload)
PgNot200 ==
  /\ PgLooping
  /\ ~OverMaxPages(pg)
  /\ pg.requests < MaxPageRequests
  /\ pg' = IF pg.kind = "iter_v2"
            THEN [PgSent(pg) EXCEPT !.pc = "done", !.result = "raised"]
            ELSE PgStop(PgSent(pg))

\* pd_get_with_retry raises (retries or total time used up):
\* fetch_persons_by_filter_id_v2 and stream_person_ids_by_filter call it, and
\* do not catch
PgExecutorRaises ==
  /\ PgLooping
  /\ ~OverMaxPages(pg)
  /\ pg.requests < MaxPageRequests
  /\ pg.kind \in RaisingKinds
  /\ pg' = [PgSent(pg) EXCEPT !.pc = "done", !.result = "raised"]

InitPage ==
  /\ now = 0
  /\ REQUEST_COUNTER = 0
  /\ ex = <<>>
  /\ NoTasks
  /\ NoEnrich
  /\ NoMerge
  /\ NoReconcile
  /\ NoJob
  /\ NoTables
  /\ \E kind \in PageKinds :
     \E mp \in (IF kind = "fetch_persons" THEN {0, MaxPagesArg}
                ELSE IF kind = "stream_ids" THEN {MaxPagesArg} ELSE {0}) :
       pg = NewPage(kind, mp)

NextPage ==
  \/ PgMaxPages
  \/ PgPage
  \/ PgNot200
  \/ PgExecutorRaises

SpecPage == InitPage /\ [][NextPage]_vars

(***************************************************************************)
(* The enrichment patch.  A JSON value is a record: type says what it is,   *)
(* n is the number of an int or float, s the characters of a str (or the    *)
(* items of a list or dict, of which only the count matters).  Absent is a  *)
(* key that the dict does not have.                                         *)
(***************************************************************************)
Absent == [type |-> "absent", n |-> 0, s |-> <<>>]
None == [type |-> "none", n |-> 0, s |-> <<>>]
PyStr(cs) == [type |-> "str", n |-> 0, s |-> cs]
PyInt(i) == [type |-> "int", n |-> i, s |-> <<>>]
PyFloat(i) == [type |-> "float", n |-> i, s |-> <<>>]
PyList(items) == [type |-> "list", n |-> 0, s |-> items]

\* dict.get(key): None when the key is absent
Get(val) == IF val = Absent THEN None ELSE val

Whitespace == {" "}

RECURSIVE LStrip(_)
LStrip(cs) ==
  IF cs # <<>> /\ Head(cs) \in Whitespace THEN LStrip(Tail(cs)) ELSE cs

RECURSIVE RStrip(_)
RStrip(cs) ==
  IF cs # <<>> /\ cs[Len(cs)] \in Whitespace
    THEN RStrip(SubSeq(cs, 1, Len(cs) - 1))
    ELSE cs

\* str.strip()
Strip(cs) == RStrip(LStrip(cs))

v2_is_empty(val) ==
  IF val.type = "none" THEN TRUE
  ELSE IF val.type = "str" THEN Strip(val.s) = <<>>
  ELSE IF val.type \in {"list", "dict"} THEN Len(val.s) = 0
  ELSE FALSE

Digits == <<"0", "1", "2", "3", "4", "5", "6", "7", "8", "9">>

DigitValue(c) == (CHOOSE i \in DOMAIN Digits : Digits[i] = c) - 1

\* str(i) of an int i >= 0
RECURSIVE NatStr(_)
NatStr(i) ==
  IF i < 10 THEN <<Digits[i + 1]>>
  ELSE NatStr(i \div 10) \o <<Digits[(i % 10) + 1]>>

\* str(x) of a label entry
StrOf(x) ==
  CASE x.type = "str" -> x.s
    [] x.type = "int" -> IF x.n < 0 THEN <<"-">> \o NatStr(-x.n) ELSE NatStr(x.n)
    [] x.type = "float" ->
         (IF x.n < 0 THEN <<"-">> \o NatStr(-x.n) ELSE NatStr(x.n)) \o <<".", "0">>
    [] OTHER -> <<"N", "o", "n", "e">>

\* str.isdigit()
IsDigit(cs) ==
  /\ cs # <<>>
  /\ \A i \in DOMAIN cs : \E d \in DOMAIN Digits : Digits[d] = cs[i]

RECURSIVE ParseNat(_)
ParseNat(cs) ==
  IF cs = <<>> THEN 0
  ELSE ParseNat(SubSeq(cs, 1, Len(cs) - 1)) * 10 + DigitValue(cs[Len(cs)])

\* int(x) of a label entry that passed str(x).isdigit()
IntOf(x) == IF x.type = "str" THEN ParseNat(x.s) ELSE x.n

\* sorted(S) of a set of ints
RECURSIVE Sorted(_)
Sorted(S) ==
  IF S = {} THEN <<>>
  ELSE LET m == CHOOSE x \in S : \A y \in S : x <= y
       IN <<PyInt(m)>> \o Sorted(S \ {m})

\* The label entries that pass the isdigit filter, as ints, in list order.
RECURSIVE DigitEntries(_)
DigitEntries(xs) ==
  IF xs = <<>> THEN <<>>
  ELSE IF IsDigit(StrOf(Head(xs)))
    THEN <<PyInt(IntOf(Head(xs)))>> \o DigitEntries(Tail(xs))
    ELSE DigitEntries(Tail(xs))

\* A merge that keeps the entries as a list: no set, no sort.
MergedLabelsAsList(xs) == DigitEntries(xs)

\* sorted({int(x) for x in w_labels + l_labels if str(x).isdigit()})
MergedLabels(xs) ==
  Sorted({ IntOf(xs[i]) : i \in { j \in DOMAIN xs : IsDigit(StrOf(xs[j])) } })

\* == of two values: an int and a float are equal when their numbers are
PyEq(x, y) ==
  IF x.type \in {"int", "float"} /\ y.type \in {"int", "float"}
    THEN x.n = y.n
    ELSE x = y

\* == of two lists
PyListEq(a, b) ==
  /\ Len(a) = Len(b)
  /\ \A i \in DOMAIN a : PyEq(a[i], b[i])

\* A label_ids field: absent, None, a list of entries, or a non-empty str.
LabelField(type, items) == [type |-> type, items |-> items]

\* winner.get("label_ids") or []
OrList(field) ==
  IF field.type \in {"absent", "none"} THEN LabelField("list", <<>>) ELSE field

\* An address field: absent, None, a dict with (or without) a value, or a
\* non-empty str.
AddressField(type, value) == [type |-> type, value |-> value]

\* winner.get("address") or {}
OrDict(field) ==
  IF field.type \in {"absent", "none"} THEN AddressField("dict", Absent) ELSE field

CfKeys == {"k1", "k2"}

\* A custom_fields field: absent, None, a dict (an entry per key, Absent for
\* a key it does not have), or a non-empty list.
CustomField(type, entries) == [type |-> type, entries |-> entries]

NoEntries == [k \in CfKeys |-> Absent]

\* winner.get("custom_fields") or {}
OrCf(field) ==
  IF field.type \in {"absent", "none"} THEN CustomField("dict", NoEntries) ELSE field

ScalarKeys == {"cc_email", "owner_id", "visible_to"}

LabelsPatch(winner, loser) ==
  LET w_labels == OrList(winner.label_ids)
      l_labels == OrList(loser.label_ids)
  IN
    IF w_labels.type = "list" /\ l_labels.type = "list"
      THEN LET merged == MergedLabels(w_labels.items \o l_labels.items) IN
        IF ~PyListEq(merged, w_labels.items)
          THEN "label_ids" :> LabelField("list", merged)
          ELSE <<>>
      ELSE <<>>

AddressPatch(winner, loser) ==
  LET w_addr == OrDict(winner.address)
      l_addr == OrDict(loser.address)
  IN
    IF /\ w_addr.type = "dict"
       /\ l_addr.type = "dict"
       /\ v2_is_empty(Get(w_addr.value))
       /\ ~v2_is_empty(Get(l_addr.value))
      THEN "address" :> l_addr
      ELSE <<>>

\* A rule that takes every non-empty loser value.
TakesScalarAlways(winner, loser, key) ==
  /\ loser[key] # Absent
  /\ ~v2_is_empty(Get(loser[key]))

\* if key in loser and (_v2_is_empty(winner.get(key)) and not _v2_is_empty(loser.get(key)))
TakesScalar(winner, loser, key) ==
  /\ loser[key] # Absent
  /\ v2_is_empty(Get(winner[key]))
  /\ ~v2_is_empty(Get(loser[key]))

ScalarsPatch(winner, loser) ==
  [key \in { k \in ScalarKeys : TakesScalar(winner, loser, k) } |-> loser[key]]

\* for k, lv in l_cf.items(): wv = cf_out.get(k); empty wv and non-empty lv
TakesEntry(w_cf, l_cf, k) ==
  /\ l_cf.entries[k] # Absent
  /\ v2_is_empty(Get(w_cf.entries[k]))
  /\ ~v2_is_empty(l_cf.entries[k])

CustomFieldsPatch(winner, loser) ==
  LET w_cf == OrCf(winner.custom_fields)
      l_cf == OrCf(loser.custom_fields)
  IN
    IF /\ w_cf.type = "dict"
       /\ l_cf.type = "dict"
       /\ l_cf.entries # NoEntries
       /\ \E k \in CfKeys : TakesEntry(w_cf, l_cf, k)
      THEN "custom_fields" :>
             CustomField("dict",
               [k \in CfKeys |-> IF TakesEntry(w_cf, l_cf, k)
                                  THEN l_cf.entries[k] ELSE w_cf.entries[k]])
      ELSE <<>>

build_org_enrichment_patch_v2(winner, loser) ==
  LabelsPatch(winner, loser) @@ AddressPatch(winner, loser)
    @@ ScalarsPatch(winner, loser) @@ CustomFieldsPatch(winner, loser)

\* The PATCH on the winner: each key of the patch replaces the winner's
\* value for that key.
ApplyPatch(winner, patch) ==
  [k \in DOMAIN winner |-> IF k \in DOMAIN patch THEN patch[k] ELSE winner[k]]

\* The longest label_ids list of a fetched organization.
MaxLabels == 2

LabelEntries ==
  { PyInt(1), PyInt(-1), PyFloat(1), PyStr(<<"2">>), PyStr(<<"x">>) }

LabelLists == UNION { [1..n -> LabelEntries] : n \in 0..MaxLabels }

LabelFields ==
  { LabelField("absent", <<>>), LabelField("none", <<>>), LabelField("str", <<>>) }
    \cup { LabelField("list", xs) : xs \in LabelLists }

AddressValues ==
  { Absent, None, PyStr(<<>>), PyStr(<<" ">>), PyStr(<<"a">>), PyStr(<<"b", " ">>),
    PyList(<<>>), PyInt(0) }

AddressFields ==
  { AddressField("absent", Absent), AddressField("none", Absent),
    AddressField("str", Absent) }
    \cup { AddressField("dict", v) : v \in AddressValues }

ScalarValues ==
  { Absent, None, PyStr(<<" ">>), PyStr(<<"a">>), PyStr(<<"b">>), PyInt(0) }

EntryValues == { Absent, None, PyStr(<<>>), PyStr(<<"a">>), PyStr(<<"b">>) }

CustomFields ==
  { CustomField("absent", NoEntries), CustomField("none", NoEntries),
    CustomField("list", NoEntries) }
    \cup { CustomField("dict", es) : es \in [CfKeys -> EntryValues] }

Groups == {"labels", "address", "scalars", "custom_fields"}

\* An organization that has none of the fields.
BareOrg ==
  [ label_ids |-> LabelField("absent", <<>>),
    address |-> AddressField("absent", Absent),
    cc_email |-> Absent, owner_id |-> Absent, visible_to |-> Absent,
    custom_fields |-> CustomField("absent", NoEntries) ]

\* An organization that has all of them.
FullOrg ==
  [ label_ids |-> LabelField("list", <<PyInt(2), PyInt(1)>>),
    address |-> AddressField("dict", PyStr(<<"a">>)),
    cc_email |-> PyStr(<<"a">>), owner_id |-> PyInt(0), visible_to |-> PyInt(0),
    custom_fields |-> CustomField("dict", [k \in CfKeys |-> PyStr(<<"a">>)]) ]

\* The organizations that differ from org in the fields of one group.
OrgsLike(org, group) ==
  CASE group = "labels" ->
         { [org EXCEPT !.label_ids = f] : f \in LabelFields }
    [] group = "address" ->
         { [org EXCEPT !.address = f] : f \in AddressFields }
    [] group = "scalars" ->
         { [org EXCEPT !.cc_email = a, !.owner_id = b, !.visible_to = c] :
             a \in ScalarValues, b \in ScalarValues, c \in ScalarValues }
    [] OTHER ->
         { [org EXCEPT !.custom_fields = f] : f \in CustomFields }

\* merge_organizations_v2_only has fetched winner and loser
Fetched(winner, loser) ==
  [ pc |-> "fetched", winner |-> winner, loser |-> loser, patch |-> <<>>,
    \* history: the winner as fetched, and the patch of the first run
    winner0 |-> winner, first |-> <<>> ]

EnBuild ==
  /\ en.pc = "fetched"
  /\ LET patch == build_org_enrichment_patch_v2(en.winner, en.loser) IN
       en' = [en EXCEPT !.pc = "built", !.patch = patch, !.first = patch]
  /\ UNCHANGED notEnrich

\* if patch: PATCH the winner
EnPatchWinner ==
  /\ en.pc = "built"
  /\ DOMAIN en.patch # {}
  /\ en' = [en EXCEPT !.pc = "patched", !.winner = ApplyPatch(en.winner, en.patch)]
  /\ UNCHANGED notEnrich

\* an empty patch is not sent
EnNoPatch ==
  /\ en.pc = "built"
  /\ DOMAIN en.patch = {}
  /\ en' = [en EXCEPT !.pc = "patched"]
  /\ UNCHANGED notEnrich

\* the patch of a second run on the patched winner, with the same loser
EnRebuild ==
  /\ en.pc = "patched"
  /\ en' = [en EXCEPT !.pc = "rebuilt",
                       !.patch = build_org_enrichment_patch_v2(en.winner, en.loser)]
  /\ UNCHANGED notEnrich

InitEnrich ==
  /\ now = 0
  /\ REQUEST_COUNTER = 0
  /\ ex = <<>>
  /\ NoTasks
  /\ NoPage
  /\ NoMerge
  /\ NoReconcile
  /\ NoJob
  /\ NoTables
  /\ \E group \in Groups, wfull \in BOOLEAN, lfull \in BOOLEAN :
     \E winner \in OrgsLike(IF wfull THEN FullOrg ELSE BareOrg, group) :
     \E loser \in OrgsLike(IF lfull THEN FullOrg ELSE BareOrg, group) :
       en = Fetched(winner, loser)

NextEnrich ==
  \/ EnBuild
  \/ EnPatchWinner
  \/ EnNoPatch
  \/ EnRebuild

SpecEnrich == InitEnrich /\ [][NextEnrich]_vars

(***************************************************************************)
(* merge_organizations_v2_only.  The remote state is what the requests act  *)
(* on: whether the winner still lacks data the loser has (the enrichment    *)
(* patch is not empty), the persons and deals that reference the loser, and *)
(* whether the loser exists.  A request is seen by its result.              *)
(***************************************************************************)
NumPersons == 2
NumDeals == 2

\* The items of one page of a listing (page_limit is 500).
ListPageLen == 1

\* Calls of merge on the same pair of organizations, one after the other.
MaxRuns == 2

\* A GET of an organization: 200 with data, 200 with an empty payload, 404,
\* or another end of pd_get_json_with_retry (401, timeout, retries used up).
GetOutcomes == {"ok", "empty", "404", "fail"}

\* A PATCH or DELETE: status 200, 204, 404, another status that
\* pd_request_with_retry returns (400, 401, 403, 409, 422), or RuntimeError.
RequestOutcomes == {"200", "204", "404", "other", "raise"}

MergeArgs ==
  [move_persons : BOOLEAN, move_deals : BOOLEAN, delete_loser : BOOLEAN,
   dry_run : BOOLEAN]

NewSummary(args) ==
  [ winner_patched |-> FALSE, persons_moved |-> 0, deals_moved |-> 0,
    loser_deleted |-> FALSE, dry_run |-> args.dry_run ]

NoRequests ==
  [get |-> 0, patch_org |-> 0, list |-> 0, patch_ref |-> 0, delete |-> 0]

\* A call of merge_organizations_v2_only begins.
NewMerge(args, remote, runs) ==
  [ pc |-> "fetch", args |-> args, summary |-> NewSummary(args),
    result |-> "none", received |-> "nothing", todo |-> <<>>, page_left |-> 0, first_page |-> FALSE,
    remote |-> remote, runs |-> runs,
    \* app.state.http, the client of the process that http_client() returns
    http |-> "open",
    \* history: the requests of this call, the remote state it began with,
    \* the result of the call before, and whether this call patched the winner
    reqs |-> NoRequests, remote0 |-> remote, before |-> "none",
    patched |-> FALSE, w_outcome |-> "none", l_outcome |-> "none",
    \* history: the PATCH and DELETE requests of this call, in order
    writes |-> <<>> ]

\* finally: await client.aclose(), on the client http_client() returned
Finally(m) == [m EXCEPT !.http = "closed"]

\* raise RuntimeError (nothing catches it: the caller gets the exception)
Raise(m) ==
  Finally([m EXCEPT !.pc = "done", !.result = "raised", !.received = "exception"])

\* return summary
Return(m) ==
  Finally([m EXCEPT !.pc = "done", !.result = "returned", !.received = "summary"])

WriteKinds == {"patch_org", "patch_ref", "delete"}

Sent(m, kind) ==
  [m EXCEPT !.reqs[kind] = @ + 1,
            !.writes = IF kind \in WriteKinds THEN Append(@, kind) ELSE @]

\* The loser is taken as not gone whatever its fetch answers.
LoserGoneNever(l_outcome) == FALSE

\* if l_status == 404
LoserGone(l_outcome) == l_outcome = "404"

\* The mode in which every request is sent.
IsDryRunNever(m) == FALSE

\* if dry_run
IsDryRun(m) == m.args.dry_run

\* The answers the remote state allows to the GET of the loser.  A closed
\* client sends nothing: client.get raises, and pd_get_json_with_retry ends
\* with status 0.
LoserOutcomes(m) ==
  IF m.http = "closed" THEN {"fail"}
  ELSE IF m.remote.loser_exists THEN {"ok", "empty", "fail"} ELSE {"404", "fail"}

\* The answers to the GET of the winner.
WinnerOutcomes(m) ==
  IF m.http = "closed" THEN {"fail"} ELSE GetOutcomes

\* fetch both orgs, then the three tests on the answers
MgFetch ==
  /\ mg.pc = "fetch"
  /\ \E w_outcome \in WinnerOutcomes(mg), l_outcome \in LoserOutcomes(mg) :
       LET m == [Sent(Sent(mg, "get"), "get") EXCEPT !.w_outcome = w_outcome,
                                                   !.l_outcome = l_outcome]
       IN
         mg' = IF w_outcome # "ok" THEN Raise(m)
               ELSE IF LoserGone(l_outcome)
                 THEN Return([m EXCEPT !.summary.loser_deleted = TRUE])
               ELSE IF l_outcome # "ok" THEN Raise(m)
               ELSE [m EXCEPT !.pc = "patch"]
  /\ UNCHANGED notMerge

\* A merge that goes on to the reassignments whatever the PATCH of the
\* winner answers.
AfterPatchGoesOn(m, outcome) ==
  IF outcome = "raise" THEN Raise(m)
  ELSE [m EXCEPT !.pc = "persons",
                 !.summary.winner_patched = (outcome = "200"),
                 !.remote.winner_needs = (outcome \notin {"200", "204"}),
                 !.patched = (outcome \in {"200", "204"})]

\* if r.status_code != 200: raise RuntimeError, else winner_patched = True
\* (the server applies a PATCH it answers 200 or 204)
AfterPatch(m, outcome) ==
  IF outcome = "200"
    THEN [m EXCEPT !.pc = "persons", !.summary.winner_patched = TRUE,
                   !.remote.winner_needs = FALSE, !.patched = TRUE]
  ELSE IF outcome = "204"
    THEN Raise([m EXCEPT !.remote.winner_needs = FALSE, !.patched = TRUE])
  ELSE Raise(m)

\* enrich winner: the patch is not empty and is sent
MgPatchWinner ==
  /\ mg.pc = "patch"
  /\ mg.remote.winner_needs
  /\ ~IsDryRun(mg)
  /\ \E outcome \in RequestOutcomes :
       mg' = AfterPatch(Sent(mg, "patch_org"), outcome)
  /\ UNCHANGED notMerge

\* enrich winner: the patch is not empty, dry run
MgPatchDryRun ==
  /\ mg.pc = "patch"
  /\ mg.remote.winner_needs
  /\ IsDryRun(mg)
  /\ mg' = [mg EXCEPT !.pc = "persons", !.summary.winner_patched = TRUE]
  /\ UNCHANGED notMerge

\* enrich winner: the patch is empty
MgNoPatch ==
  /\ mg.pc = "patch"
  /\ ~mg.remote.winner_needs
  /\ mg' = [mg EXCEPT !.pc = "persons"]
  /\ UNCHANGED notMerge

RefKinds == {"persons", "deals"}

\* A merge that deletes the loser right after the persons.
NextStepSkipsDeals(kind) == "delete"

\* reassign persons, then reassign deals, then delete loser org
NextStep(kind) == IF kind = "persons" THEN "deals" ELSE "delete"

Moves(m, kind) == IF kind = "persons" THEN m.args.move_persons ELSE m.args.move_deals

Moved(kind) == IF kind = "persons" THEN "persons_moved" ELSE "deals_moved"

\* The ids of a set in ascending order (sort_by id, sort_direction asc).
RECURSIVE Ascending(_)
Ascending(S) ==
  IF S = {} THEN <<>>
  ELSE LET m == CHOOSE x \in S : \A y \in S : x <= y
       IN <<m>> \o Ascending(S \ {m})

\* if move_persons / if move_deals: the listing begins, or the step is skipped
MgBeginList(kind) ==
  /\ mg.pc = kind
  /\ \E junk \in BOOLEAN :
       mg' = IF Moves(mg, kind)
             THEN [mg EXCEPT !.pc = kind \o "_iter",
                     \* an item without id (0) may come first
                     !.todo = (IF junk THEN <<0>> ELSE <<>>) \o Ascending(mg.remote[kind]),
                     !.page_left = 0, !.first_page = TRUE]
             ELSE [mg EXCEPT !.pc = NextStep(kind)]
  /\ UNCHANGED notMerge

\* _iter_v2_collection requests a page: it raises unless the answer is 200
\* with a payload
MgListPage(kind) ==
  /\ mg.pc = kind \o "_iter"
  /\ mg.page_left = 0
  /\ mg.first_page \/ mg.todo # <<>>
  /\ \E ok \in BOOLEAN :
       LET m == Sent(mg, "list") IN
         mg' = IF ok
               THEN [m EXCEPT !.page_left = Min(ListPageLen, Len(mg.todo)),
                              !.first_page = FALSE]
               ELSE Raise(m)
  /\ UNCHANGED notMerge

\* the body of `async for` for one item
MgItem(kind) ==
  /\ mg.pc = kind \o "_iter"
  /\ mg.page_left > 0
  /\ \E outcome \in RequestOutcomes :
       LET id == Head(mg.todo)
           m == [mg EXCEPT !.todo = Tail(@), !.page_left = @ - 1]
       IN
         mg' = IF id = 0 THEN m
               ELSE IF IsDryRun(m) THEN [m EXCEPT !.summary[Moved(kind)] = @ + 1]
               ELSE IF outcome = "raise" THEN Raise(Sent(m, "patch_ref"))
               ELSE IF outcome = "200"
                 THEN [Sent(m, "patch_ref") EXCEPT !.summary[Moved(kind)] = @ + 1,
                                                    !.remote[kind] = @ \ {id}]
               ELSE IF outcome = "204"
                 THEN [Sent(m, "patch_ref") EXCEPT !.remote[kind] = @ \ {id}]
               ELSE Sent(m, "patch_ref")
  /\ UNCHANGED notMerge

\* the listing has no further page
MgEndList(kind) ==
  /\ mg.pc = kind \o "_iter"
  /\ mg.page_left = 0
  /\ ~mg.first_page
  /\ mg.todo = <<>>
  /\ mg' = [mg EXCEPT !.pc = NextStep(kind)]
  /\ UNCHANGED notMerge

\* delete loser org, and return summary
MgDelete ==
  /\ mg.pc = "delete"
  /\ \E outcome \in RequestOutcomes :
       mg' = IF ~mg.args.delete_loser THEN Return(mg)
             ELSE IF IsDryRun(mg) THEN Return([mg EXCEPT !.summary.loser_deleted = TRUE])
             ELSE LET m == Sent(mg, "delete") IN
               IF outcome \in {"200", "204"}
                 THEN Return([m EXCEPT !.summary.loser_deleted = TRUE,
                                       !.remote.loser_exists = FALSE])
               ELSE IF outcome = "404"
                 THEN Return([m EXCEPT !.summary.loser_deleted = TRUE])
               ELSE Raise(m)
  /\ UNCHANGED notMerge

\* the same merge is called again, on the remote state the call before left:
\* in the same process, or after a restart (_startup makes a new client)
MgCallAgain ==
  /\ mg.pc = "done"
  /\ mg.runs < MaxRuns
  /\ \E restarted \in BOOLEAN :
       mg' = [NewMerge(mg.args, mg.remote, mg.runs + 1) EXCEPT
                !.before = mg.result,
                !.http = IF restarted THEN "open" ELSE mg.http]
  /\ UNCHANGED notMerge

Remotes ==
  [ winner_needs : BOOLEAN, loser_exists : BOOLEAN,
    persons : SUBSET (1..NumPersons), deals : SUBSET (1..NumDeals) ]

InitMerge ==
  /\ now = 0
  /\ REQUEST_COUNTER = 0
  /\ ex = <<>>
  /\ NoTasks
  /\ NoPage
  /\ NoEnrich
  /\ NoReconcile
  /\ NoJob
  /\ NoTables
  /\ \E args \in MergeArgs, remote \in Remotes :
       mg = NewMerge(args, remote, 1)

NextMerge ==
  \/ MgFetch
  \/ MgPatchWinner
  \/ MgPatchDryRun
  \/ MgNoPatch
  \/ \E kind \in RefKinds : MgBeginList(kind)
  \/ \E kind \in RefKinds : MgListPage(kind)
  \/ \E kind \in RefKinds : MgItem(kind)
  \/ \E kind \in RefKinds : MgEndList(kind)
  \/ MgDelete
  \/ MgCallAgain

SpecMerge == InitMerge /\ [][NextMerge]_vars

(***************************************************************************)
(* _reconcile.  A row of the table has the columns the rules read: Person   *)
(* ID (pid) and Organisation ID (org) as strings of characters,             *)
(* Organisationsart (orgtype), Datum naechste Aktivitaet (next),            *)
(* and Organisation Name (org_name), a string of characters.  rid stands for *)
(* the other columns of the row, by which two rows are told apart.          *)
(*                                                                         *)
(* A date value is the string of the column by what the parser makes of it: *)
(* empty, the zero date 0000-00-00, a string that fromisoformat rejects, a  *)
(* date without offset (naive), or a date with an offset other than Z and   *)
(* +00:00 (aware).  day counts days from today: 1 is tomorrow.              *)
(***************************************************************************)
\* The longest table.
MaxRows == 3

\* The value that fillna puts for a Person ID that is no number (10**18):
\* above every id of the model.
FillNa == 1000000

\* "innerhalb der letzten 3 Monate", in days
ExclusionWindowDays == 90

Row(rid, pid, org, orgtype, next, org_name) ==
  [ rid |-> rid, pid |-> pid, org |-> org, orgtype |-> orgtype, next |-> next,
    org_name |-> org_name ]

(***************************************************************************)
(* The names of organizations and their comparison.  The characters of     *)
(* the model, in the order of their code points:                           *)
(***************************************************************************)
CodePoints ==
  << " ", ".", "0", "1", "2", "3", "4", "5", "6", "7", "8", "9", "A", "B", "a", "b" >>

CodePoint(c) == CHOOSE k \in DOMAIN CodePoints : CodePoints[k] = c

\* str.lower()
LowerChar(c) == IF c = "A" THEN "a" ELSE IF c = "B" THEN "b" ELSE c

Lower(cs) == [i \in DOMAIN cs |-> LowerChar(cs[i])]

\* [a-z0-9]
IsLowerAlnum(c) == c \in {"a", "b"} \/ \E d \in DOMAIN Digits : Digits[d] = c

\* re.sub(r"[^a-z0-9 ]", "", s)
KeepAlnumSpace(cs) == SelectSeq(cs, LAMBDA c : IsLowerAlnum(c) \/ c = " ")

\* re.sub(r"\s+", " ", s)
RECURSIVE CollapseSpaces(_)
CollapseSpaces(cs) ==
  IF Len(cs) < 2 THEN cs
  ELSE IF cs[1] \in Whitespace /\ cs[2] \in Whitespace THEN CollapseSpaces(Tail(cs))
  ELSE <<Head(cs)>> \o CollapseSpaces(Tail(cs))

normalize_name(cs) ==
  IF cs = <<>> THEN <<>> ELSE Strip(CollapseSpaces(KeepAlnumSpace(Lower(cs))))

bucket_key(name) ==
  LET n == normalize_name(name) IN IF Len(n) > 1 THEN SubSeq(n, 1, 2) ELSE n

\* The processor the library applies to both strings before scoring.  The
\* assignment to fuzz.default_processor changes no function of rapidfuzz:
\* a release from 3.0 on applies none ("none"), an earlier one applies
\* utils.default_process ("default_process"), which lowers the letters, puts
\* a blank for every other character that is no letter or digit, and strips.
Processors == {"none", "default_process"}

default_process(cs) ==
  Strip([i \in DOMAIN cs |->
           IF IsLowerAlnum(LowerChar(cs[i])) THEN LowerChar(cs[i]) ELSE " "])

Processed(processor, cs) == IF processor = "none" THEN cs ELSE default_process(cs)

\* s.split(): the words between the blanks
RECURSIVE Tokens(_)
Tokens(cs) ==
  LET s == LStrip(cs)
      end == IF \E k \in DOMAIN s : s[k] \in Whitespace
               THEN (CHOOSE k \in DOMAIN s :
                       s[k] \in Whitespace /\ \A j \in 1..(k - 1) : s[j] \notin Whitespace) - 1
               ELSE Len(s)
  IN IF s = <<>> THEN <<>>
     ELSE <<SubSeq(s, 1, end)>> \o Tokens(SubSeq(s, end + 1, Len(s)))

\* < of two strings, by code points
RECURSIVE TokenLess(_, _)
TokenLess(a, b) ==
  IF b = <<>> THEN FALSE
  ELSE IF a = <<>> THEN TRUE
  ELSE IF Head(a) # Head(b) THEN CodePoint(Head(a)) < CodePoint(Head(b))
  ELSE TokenLess(Tail(a), Tail(b))

RECURSIVE InsertToken(_, _)
InsertToken(sorted, t) ==
  IF sorted = <<>> THEN <<t>>
  ELSE IF TokenLess(t, Head(sorted)) THEN <<t>> \o sorted
  ELSE <<Head(sorted)>> \o InsertToken(Tail(sorted), t)

RECURSIVE SortTokens(_)
SortTokens(ts) == IF ts = <<>> THEN <<>> ELSE InsertToken(SortTokens(Tail(ts)), Head(ts))

\* " ".join(tokens)
RECURSIVE Join(_)
Join(ts) ==
  IF ts = <<>> THEN <<>>
  ELSE IF Len(ts) = 1 THEN ts[1]
  ELSE ts[1] \o <<" ">> \o Join(Tail(ts))

\* The length of a longest common subsequence.
RECURSIVE Lcs(_, _)
Lcs(a, b) ==
  IF a = <<>> \/ b = <<>> THEN 0
  ELSE IF Head(a) = Head(b) THEN 1 + Lcs(Tail(a), Tail(b))
  ELSE Max(Lcs(Tail(a), b), Lcs(a, Tail(b)))

\* score >= 95
ScoreThreshold == 95

\* fuzz.ratio(a, b) >= cutoff: the ratio is 100 * 2 * lcs / (len(a) + len(b)),
\* and 100 for two empty strings
RatioAtLeast(a, b, cutoff) ==
  \/ Len(a) + Len(b) = 0
  \/ 200 * Lcs(a, b) >= cutoff * (Len(a) + Len(b))

\* fuzz.token_sort_ratio(a, b) >= cutoff under process.extractOne
token_sort_ratio(processor, a, b, cutoff) ==
  RatioAtLeast(Join(SortTokens(Tokens(Processed(processor, a)))),
               Join(SortTokens(Tokens(Processed(processor, b)))), cutoff)

\* MAX_ORG_NAMES and MAX_ORG_BUCKET
MAX_ORG_NAMES == 1000
MAX_ORG_BUCKET == 200

\* abs(len(n) - len(norm)) <= 4
NearLen == 4

\* _fetch_org_names_for_filter_capped: the names kept in the buckets, in the
\* order of their arrival, after the names of the sequence from the i-th on.
RECURSIVE KeptNames(_, _, _, _, _)
KeptNames(names, i, kept, cap_limit, cap_bucket) ==
  IF i > Len(names) THEN kept
  ELSE LET name == names[i]
           norm == normalize_name(name)
           b == bucket_key(norm)
           bucket == SelectSeq(kept, LAMBDA n : bucket_key(normalize_name(n)) = b)
       IN IF norm = <<>> THEN KeptNames(names, i + 1, kept, cap_limit, cap_bucket)
          ELSE IF Len(bucket) >= cap_bucket
                 THEN KeptNames(names, i + 1, kept, cap_limit, cap_bucket)
          ELSE IF \E k \in DOMAIN bucket : bucket[k] = name
                 THEN KeptNames(names, i + 1, kept, cap_limit, cap_bucket)
          ELSE IF Len(kept) + 1 >= cap_limit THEN Append(kept, name)
          ELSE KeptNames(names, i + 1, Append(kept, name), cap_limit, cap_bucket)

\* Reference names of the remote system, and the processor of the library.
Reference(names, processor) == [names |-> names, processor |-> processor]

buckets_all(ref) == KeptNames(ref.names, 1, <<>>, MAX_ORG_NAMES, MAX_ORG_BUCKET)

\* The names of the bucket of norm whose length is near the length of norm.
Near(ref, norm) ==
  LET kept == buckets_all(ref)
  IN { kept[k] : k \in { k \in DOMAIN kept :
                           /\ bucket_key(normalize_name(kept[k])) = bucket_key(norm)
                           /\ Len(kept[k]) - Len(norm) <= NearLen
                           /\ Len(norm) - Len(kept[k]) <= NearLen } }

\* The turn of the loop of rule (3) for a row: whether the row is dropped.
OrgMatch(ref, r) ==
  LET norm == normalize_name(Strip(r.org_name))
  IN /\ norm # <<>>
     /\ \E n \in Near(ref, norm) : token_sort_ratio(ref.processor, norm, n, ScoreThreshold)

DateValue(kind, day) == [kind |-> kind, day |-> day]

NoDate == DateValue("empty", 0)

is_forbidden_fail_closed(dt) ==
  IF dt.kind = "empty" THEN FALSE
  ELSE IF dt.kind \in {"zero", "bad", "aware"} THEN TRUE
  ELSE dt.day > 0

\* `not dt`; the zero date; fromisoformat raises; `dt > now` raises for a
\* date with an offset (now is utcnow(), without one); else dt > now, where
\* a date is the midnight that begins its day
is_forbidden_activity_date(dt) ==
  IF dt.kind = "empty" THEN FALSE
  ELSE IF dt.kind = "zero" THEN FALSE
  ELSE IF dt.kind = "bad" THEN FALSE
  ELSE IF dt.kind = "aware" THEN FALSE
  ELSE dt.day > 0

\* < of two strings of digits
RECURSIVE StrLess(_, _)
StrLess(a, b) ==
  IF b = <<>> THEN FALSE
  ELSE IF a = <<>> THEN TRUE
  ELSE IF Head(a) # Head(b) THEN DigitValue(Head(a)) < DigitValue(Head(b))
  ELSE StrLess(Tail(a), Tail(b))

\* A sort key that takes the Person ID as it is not: always the same number.
PidSortConstant(pid) == FillNa

\* pd.to_numeric(errors="coerce").fillna(10**18)
PidSort(pid) == IF IsDigit(pid) THEN ParseNat(pid) ELSE FillNa

\* by=["_orgid_sort", "_pid_sort"]
KeyLess(a, b) ==
  \/ StrLess(a.org, b.org)
  \/ a.org = b.org /\ PidSort(a.pid) < PidSort(b.pid)

RECURSIVE InsertRow(_, _)
InsertRow(sorted, r) ==
  IF sorted = <<>> THEN <<r>>
  ELSE IF KeyLess(r, Head(sorted)) THEN <<r>> \o sorted
  ELSE <<Head(sorted)>> \o InsertRow(Tail(sorted), r)

\* sort_values(kind="mergesort"): rows with equal keys keep their order
RECURSIVE SortRows(_)
SortRows(rows) ==
  IF rows = <<>> THEN <<>>
  ELSE InsertRow(SortRows(SubSeq(rows, 1, Len(rows) - 1)), rows[Len(rows)])

\* groupby("_orgid_sort").cumcount()
CumCount(rows, i) == Cardinality({ j \in 1..(i - 1) : rows[j].org = rows[i].org })

\* The rows with cumcount >= limit (over = TRUE), or the others.
RECURSIVE OverPart(_, _, _, _)
OverPart(rows, i, limit, over) ==
  IF i > Len(rows) THEN <<>>
  ELSE (IF (CumCount(rows, i) >= limit) = over THEN <<rows[i]>> ELSE <<>>)
         \o OverPart(rows, i + 1, limit, over)

\* A limit that lets one row more through.
LimitOffByOne(K) == K + 1

\* int(PER_ORG_DEFAULT_LIMIT or 2)
Limit(K) == IF K = 0 THEN 2 ELSE K

\* log_drop for each of the rows
Logged(rows, reason) ==
  [ i \in DOMAIN rows |->
      [reason |-> reason, rid |-> rows[i].rid, pid |-> rows[i].pid, org |-> rows[i].org] ]

\* df[mask] (want = TRUE) and df[~mask] (want = FALSE)
RECURSIVE Masked(_, _, _)
Masked(rows, mask, want) ==
  IF rows = <<>> THEN <<>>
  ELSE (IF Head(mask) = want THEN <<Head(rows)>> ELSE <<>>)
         \o Masked(Tail(rows), Tail(mask), want)

\* A rule that logs the rows of the mask and leaves them in the table.
DropKeepsRows(m, mask, reason, pc) ==
  [m EXCEPT !.delete_rows = @ \o Logged(Masked(m.df, mask, TRUE), reason),
            !.pc = pc]

\* A rule: the rows of the mask are logged and leave the table.
Drop(m, mask, reason, pc) ==
  [m EXCEPT !.delete_rows = @ \o Logged(Masked(m.df, mask, TRUE), reason),
            !.df = Masked(m.df, mask, FALSE),
            !.pc = pc]

\* An order of the rules in which the date rule runs after the rule of the
\* suspect ids.
FollowingDateLate(pc) ==
  CASE pc = "load" -> "fuzzy"
    [] pc = "fuzzy" -> "suspect"
    [] pc = "suspect" -> "date"
    [] pc = "date" -> "cap"
    [] pc = "cap" -> "done"

\* The statements of _reconcile in their order: rule (2) runs on the loaded
\* table, then (5), (3), (4), (1), then the save.
Following(pc) ==
  CASE pc = "load" -> "date"
    [] pc = "date" -> "fuzzy"
    [] pc = "fuzzy" -> "suspect"
    [] pc = "suspect" -> "cap"
    [] pc = "cap" -> "done"

\* One reference name, which the row name "ab" equals.
DefaultReference == Reference(<< <<"a", "b">> >>, "none")

\* A page of a reference list of the remote system: the ids it holds and
\* what pd_get_json_with_retry returns for its request: status 200 with the
\* payload, a status other than 200, or status 0 after an executor error.
RefPage(status, ids) == [status |-> status, ids |-> ids]

\* for fid in (1216, 1708)
NumFilters == 2

\* remote[f] is the reference list of the f-th filter, page by page.  fid
\* and page are the position of the stream: the filter and the page of the
\* next request.
NewReconcile(rows, remote, K, runs) ==
  [ pc |-> "load", df |-> rows, delete_rows |-> <<>>, suspect_ids |-> {},
    remote |-> remote, fid |-> 1, page |-> 1, reference |-> DefaultReference,
    K |-> K, runs |-> runs,
    \* history: the table as loaded, the table before the cap, and the ready
    \* set and the log of the run before
    input |-> rows, capped |-> <<>>, before |-> [ready |-> {}, log |-> {}] ]

\* if df.empty
RcEmpty ==
  /\ rc.pc = "load"
  /\ rc.df = <<>>
  /\ rc' = [rc EXCEPT !.pc = "done"]
  /\ UNCHANGED notReconcile

\* (2) Organisationsart gesetzt
RcOrgType ==
  /\ rc.pc = "load"
  /\ rc.df # <<>>
  /\ rc' = Drop(rc, [i \in DOMAIN rc.df |-> Strip(rc.df[i].orgtype) # <<>>],
                "org_art_not_empty", Following(rc.pc))
  /\ UNCHANGED notReconcile

\* (5) Datum naechste Aktivitaet
RcDate ==
  /\ rc.pc = "date"
  /\ rc' = Drop(rc, [i \in DOMAIN rc.df |-> is_forbidden_activity_date(rc.df[i].next)],
                "forbidden_activity_date", Following(rc.pc))
  /\ UNCHANGED notReconcile

\* (3) FUZZY Orga >= 95%
RcFuzzy ==
  /\ rc.pc = "fuzzy"
  /\ rc' = Drop(rc, [i \in DOMAIN rc.df |-> OrgMatch(rc.reference, rc.df[i])], "org_match_95",
                Following(rc.pc))
  /\ UNCHANGED notReconcile

\* One turn of the loop of stream_person_ids_by_filter_cursor: the request of
\* a page and what follows.  A list without pages answers with empty data.
RcStreamPage ==
  /\ rc.pc = "suspect"
  /\ rc.fid <= NumFilters
  /\ LET list == rc.remote[rc.fid]
         next_filter == [rc EXCEPT !.fid = @ + 1, !.page = 1]
     IN rc' = IF rc.page > Len(list) THEN next_filter
              ELSE IF list[rc.page].status # "200" THEN next_filter
              ELSE IF list[rc.page].ids = {} THEN next_filter
              ELSE IF rc.page = Len(list)
                     THEN [next_filter EXCEPT !.suspect_ids = @ \cup list[rc.page].ids]
              ELSE [rc EXCEPT !.suspect_ids = @ \cup list[rc.page].ids, !.page = @ + 1]
  /\ UNCHANGED notReconcile

\* (4) Person-ID bereits in Filtern 1216/1708
RcSuspect ==
  /\ rc.pc = "suspect"
  /\ rc.fid > NumFilters
  /\ rc' = IF rc.suspect_ids # {}
            THEN Drop(rc, [i \in DOMAIN rc.df |-> rc.df[i].pid \in rc.suspect_ids],
                      "person_id_match", Following(rc.pc))
            ELSE [rc EXCEPT !.pc = Following(rc.pc)]
  /\ UNCHANGED notReconcile

\* (1) Max 2 Kontakte pro Organisation, then READY + LOG speichern
RcCap ==
  /\ rc.pc = "cap"
  /\ LET sorted == SortRows(rc.df)
         limit == Limit(rc.K)
     IN rc' = [rc EXCEPT
                 !.delete_rows = @ \o Logged(OverPart(sorted, 1, limit, TRUE), "per_org_limit"),
                 !.df = OverPart(sorted, 1, limit, FALSE),
                 !.capped = rc.df,
                 !.pc = Following(rc.pc)]
  /\ UNCHANGED notReconcile

ReadySet(m) == { m.df[i].rid : i \in DOMAIN m.df }

LogSet(m) == { <<m.delete_rows[i].rid, m.delete_rows[i].reason>> : i \in DOMAIN m.delete_rows }

\* The rows in another order: the first two swapped, or the first put last.
Reordered(rows, how) ==
  IF how = "swap"
    THEN <<rows[2], rows[1]>> \o SubSeq(rows, 3, Len(rows))
    ELSE Tail(rows) \o <<Head(rows)>>

\* _reconcile runs again on the same rows, loaded in another order
RcRerun(how) ==
  /\ rc.pc = "done"
  /\ rc.runs = 1
  /\ Len(rc.input) >= 2
  /\ rc' = [NewReconcile(Reordered(rc.input, how), rc.remote, rc.K, 2)
              EXCEPT !.before = [ready |-> ReadySet(rc), log |-> LogSet(rc)],
                     !.reference = rc.reference]
  /\ UNCHANGED notReconcile

(***************************************************************************)
(* The tables _reconcile is run on.                                        *)
(***************************************************************************)
OrgA == <<"7">>
OrgB == <<"1", "0">>

\* A row that no rule before the cap removes.
Plain(pid, org) == Row(0, pid, org, <<>>, NoDate, <<>>)

\* 3 rows in organization A and 2 in organization B.
ExampleRows ==
  << Plain(<<"1">>, OrgA), Plain(<<"2">>, OrgA), Plain(<<"3">>, OrgA),
     Plain(<<"4">>, OrgB), Plain(<<"5">>, OrgB) >>

\* Rows for the cap: ids that are numbers, blank, no number, repeated.
CapRows ==
  { Plain(pid, org) : pid \in {<<"1">>, <<"2">>, <<>>, <<"x">>}, org \in {OrgA, OrgB} }

\* Rows for the other rules: a date of each kind, an Organisationsart, a
\* match of the organization name, and rows that several rules match.
RuleRows ==
  { Row(0, <<"1">>, OrgA, <<>>, d, <<>>) :
      d \in { NoDate, DateValue("zero", 0), DateValue("bad", 0), DateValue("aware", 1),
              DateValue("naive", 1), DateValue("naive", -30) } }
    \cup { Row(0, <<"2">>, OrgA, <<>>, NoDate, <<>>),
           Row(0, <<"2">>, OrgA, <<"x">>, NoDate, <<>>),
           Row(0, <<"2">>, OrgA, <<" ">>, NoDate, <<"a", "b">>),
           Row(0, <<"2">>, OrgA, <<"x">>, DateValue("naive", 1), <<"a", "b">>) }

\* Rows for the rule of the suspect ids: no other rule but the cap removes them.
SuspectRows == { Plain(pid, OrgA) : pid \in {<<"1">>, <<"2">>, <<"3">>} }

\* The longest reference list, in pages.
MaxRefPages == 2

\* The pages of a reference list: pages that are delivered, and pages whose
\* request ends with another status or with an executor error.
RefPages ==
  { RefPage("200", {<<"1">>}), RefPage("200", {<<"2">>}),
    RefPage("404", {<<"2">>}), RefPage("0", {<<"2">>}) }

RefLists == UNION { [1..n -> RefPages] : n \in 0..MaxRefPages }

\* No reference list holds an id.
NoRemote == << <<>>, <<>> >>

\* The lists hold the ids 2 and 9, a page each.
OnePageRemote == << <<RefPage("200", {<<"2">>})>>, <<RefPage("200", {<<"9">>})>> >>

\* The most reference names of organizations.
MaxRefNames == 2

\* Names of the rows and raw names of the reference organizations: the same
\* letters in another case, with punctuation, with a blank.
RowNames == { <<"a", "b">>, <<"A", ".", "b">>, <<"a", " ", "b">> }

RawNames ==
  { <<"a", "b">>, <<"A", "B">>, <<"a", ".", "b">>, <<"a", " ", "b">>,
    <<"a", ".", ".", ".", ".", ".", "b">> }

References ==
  { Reference(names, processor) :
      names \in UNION { [1..n -> RawNames] : n \in 0..MaxRefNames }, processor \in Processors }

\* The tables of up to MaxRows rows taken from a set, each row with its rid.
Tables(rows) ==
  UNION { { [i \in 1..n |-> [f[i] EXCEPT !.rid = i]] : f \in [1..n -> rows] } : n \in 0..MaxRows }

InitReconcile ==
  /\ now = 0
  /\ REQUEST_COUNTER = 0
  /\ ex = <<>>
  /\ NoTasks
  /\ NoPage
  /\ NoEnrich
  /\ NoMerge
  /\ NoJob
  /\ NoTables
  /\ \/ \E p \in Permutations(DOMAIN ExampleRows) :
          rc = NewReconcile([i \in DOMAIN ExampleRows |-> [ExampleRows[p[i]] EXCEPT !.rid = p[i]]],
                            NoRemote, 2, 1)
     \/ \E rows \in Tables(CapRows), K \in {1, 2} :
          rc = NewReconcile(rows, NoRemote, K, 1)
     \/ \E rows \in Tables(RuleRows), remote \in {NoRemote, OnePageRemote} :
          rc = NewReconcile(rows, remote, 2, 1)
     \/ \E rows \in Tables(SuspectRows), first \in RefLists,
           second \in {<<>>, <<RefPage("200", {<<"3">>})>>} :
          rc = NewReconcile(rows, <<first, second>>, 2, 1)
     \/ \E name \in RowNames, reference \in References :
          rc = [NewReconcile(<<Row(1, <<"1">>, OrgA, <<>>, NoDate, name)>>, NoRemote, 2, 1)
                  EXCEPT !.reference = reference]

NextReconcile ==
  \/ RcEmpty
  \/ RcOrgType
  \/ RcDate
  \/ RcFuzzy
  \/ RcStreamPage
  \/ RcSuspect
  \/ RcCap
  \/ \E how \in {"swap", "rotate"} : RcRerun(how)

SpecReconcile == InitReconcile /\ [][NextReconcile]_vars

(***************************************************************************)
(* A Job and the coroutine that runs it: run_nachfass_job, or _run of       *)
(* export_start_nk and of refresh_export_start, with the call of            *)
(* reconcile_with_progress and of _reconcile in it.  The event loop runs a  *)
(* coroutine from one await to the next without a break, so an action is   *)
(* the code between two awaits, and pc names the await at which the        *)
(* coroutine is suspended.  The handler of export_progress (a poll) runs   *)
(* between two such actions.                                               *)
(*                                                                         *)
(* phase, percent and detail are properties whose setters call _touch;     *)
(* done, error and stats are plain attributes.  stats is the set of its    *)
(* keys.                                                                   *)
(***************************************************************************)
JobKinds == {"nachfass", "neukontakte", "refresh"}

\* job.error is None; another value of error is the beginning of a message
NoError == "None"

\* What the client has seen of the job in no poll yet.
NoPoll == [heartbeat |-> -1]

\* The pages of the person filter that a run is followed through.
MaxJobPages == 2

\* The pages of suspect ids of which the model counts the heartbeat; of the
\* pages after them it keeps the cursor only.
MaxIdPages == 1

\* Job(), and in the handler that creates it: job.phase, job.percent
NewJob(kind) ==
  [ kind |-> kind, pc |-> "created", phase |-> "Initialisiere",
    heartbeat |-> IF kind = "nachfass" THEN 0 ELSE 2,
    percent |-> IF kind = "nachfass" THEN 0 ELSE 1,
    done |-> FALSE, error |-> NoError, stats |-> {},
    \* `pages` of fetch_persons_by_filter_id_v2; the cursor of
    \* stream_person_ids_by_filter_cursor (0 is None) and its pages so far
    pages |-> 0, cursor |-> 0, id_pages |-> 0,
    \* history: a stage of the run raised; the last two polls
    failed |-> FALSE, last |-> NoPoll, prev |-> NoPoll ]

\* n assignments to phase, percent and detail, the last phase being `phase`
Setters(j, phase, n) == [j EXCEPT !.phase = phase, !.heartbeat = @ + n]

\* job.stats[key] = ...
SetStats(j, keys) == [j EXCEPT !.stats = @ \cup keys]

\* job.percent = v
SetPercent(j, v) == [j EXCEPT !.percent = v]

\* job.percent = max(job.percent, v)
MaxPercent(j, v) == [j EXCEPT !.percent = Max(@, v)]

\* job_obj.percent = min(22, max(percent, 12 + min(10, pages)))
FetchPercent(j, pages) ==
  [j EXCEPT !.percent = Min(22, Max(@, 12 + Min(10, pages)))]

\* A runner that sets a low percent when it saves the master.
SavePercentLow(kind) == 50

\* job.percent of "Speichere Master (DB)"
SavePercent(kind) == IF kind = "neukontakte" THEN 65 ELSE 70

\* job.percent of "Abgleich"
ReconcilePercent(kind) == IF kind = "neukontakte" THEN 75 ELSE 80

\* start_percent and end_percent of the call of reconcile_with_progress
StartPercent(kind) == IF kind = "nachfass" THEN 72 ELSE 60
EndPercent(kind) == IF kind = "nachfass" THEN 85 ELSE 78

\* p(x) of reconcile_with_progress, x in hundredths
P(kind, x) ==
  Max(0, Min(100, StartPercent(kind)
                    + ((EndPercent(kind) - StartPercent(kind)) * x) \div 100))

\* The detail assignments of the runner of neukontakte, which the others lack.
DetailOf(j) == IF j.kind = "neukontakte" THEN 1 ELSE 0

\* The early returns of run_nachfass_job: done, error, phase, percent
FinishedEmpty(j) ==
  [SetPercent(Setters(j, "Fertig (leer)", 2), 100) EXCEPT
     !.done = TRUE, !.error = "Keine", !.pc = "finished"]

\* `except Exception as e` of the runner
RunnerExcept(j) ==
  [SetPercent(Setters(j, "Fehler", 2), 100) EXCEPT
     !.done = TRUE, !.error = "Fehler", !.failed = TRUE, !.pc = "finished"]

\* The statements of the runner after reconcile_with_progress has returned,
\* up to `await load_df_text(t["ready"])`.
AfterReconcile(j) ==
  [SetPercent(Setters(j, "Erzeuge Excel", 2 + DetailOf(j)), 90) EXCEPT !.pc = "await_ready"]

\* `except Exception as e` of reconcile_with_progress, which then returns
RwpExcept(j) ==
  AfterReconcile([SetPercent(Setters(j, "Fehler", 2), 100) EXCEPT
                    !.error = "Fehler beim Abgleich", !.done = TRUE, !.failed = TRUE])

\* job_obj.error = None, phase, percent, done = True
NachfassDone(j) ==
  [SetPercent(Setters(j, "Fertig", 2), 100) EXCEPT
     !.error = NoError, !.done = TRUE, !.pc = "finished"]

\* phase, percent, done = True
ExportDone(j) ==
  [SetPercent(Setters(j, "Fertig", 2), 100) EXCEPT !.done = TRUE, !.pc = "finished"]

Outcomes == {"ok", "raise"}

\* job.percent before the fetch of the persons
FirstPercent(kind) == IF kind = "nachfass" THEN 8 ELSE 5

\* The coroutine starts and runs to the first page request of
\* fetch_persons_by_filter_id_v2 (which sets phase and detail before it).
JbStart ==
  /\ jb.pc = "created"
  /\ \E batch_ids \in {"given", "none"} :
       jb' = IF jb.kind = "nachfass" /\ batch_ids = "none" THEN FinishedEmpty(jb)
             ELSE [Setters(SetPercent(Setters(jb, "Lade Personen", 2 + DetailOf(jb)),
                                      FirstPercent(jb.kind)),
                           "Suche Personen", 2)
                     EXCEPT !.pc = "await_fetch", !.pages = 1]
  /\ UNCHANGED notJob

\* A page of the persons is answered 200: phase, detail, percent; the loop
\* goes on and sets phase and detail before the next request.
JbFetchPage ==
  /\ jb.pc = "await_fetch"
  /\ jb.pages < MaxJobPages
  /\ jb' = [Setters(FetchPercent(jb, jb.pages), "Suche Personen", 5)
             EXCEPT !.pages = @ + 1]
  /\ UNCHANGED notJob

\* The statements of the runner between the fetch of the persons and the
\* build of the master, when persons are selected.
Selected(j) ==
  IF j.kind = "nachfass" THEN
    SetPercent(SetPercent(SetStats(Setters(j, "Baue Master", 4),
                                   {"total", "with_any_batch", "selected"}), 18), 55)
  ELSE IF j.kind = "neukontakte" THEN
    SetPercent(SetPercent(SetStats(Setters(j, "Baue Master", 6), {"selected"}), 35), 55)
  ELSE
    SetPercent(MaxPercent(SetPercent(SetStats(Setters(j, "Baue Master", 4),
                                              {"total", "selected"}), 30), 50), 60)

\* fetch_persons_by_filter_id_v2 returns; the selection; up to the await of
\* the master build.
JbFetched ==
  /\ jb.pc = "await_fetch"
  /\ \E outcome \in Outcomes, persons \in {"some", "none"}, selected \in {"some", "none"} :
       LET j == Setters(FetchPercent(jb, jb.pages), "Suche Personen", 3) IN
       jb' = IF outcome = "raise" THEN RunnerExcept(jb)
             ELSE IF jb.kind = "nachfass" THEN
               IF persons = "none" THEN FinishedEmpty(SetStats(jb, {"total"}))
               ELSE IF selected = "none"
                 THEN FinishedEmpty(SetStats(SetPercent(Setters(j, "Batch-ID", 2), 18),
                                             {"total", "with_any_batch", "selected"}))
               ELSE [Selected(j) EXCEPT !.pc = "await_master"]
             ELSE [Selected(j) EXCEPT !.pc = "await_master"]
  /\ UNCHANGED notJob

\* The master build returns; up to the await of save_df_text.
JbMasterBuilt ==
  /\ jb.pc = "await_master"
  /\ \E outcome \in Outcomes :
       jb' = IF outcome = "raise" THEN RunnerExcept(jb)
             ELSE [SetPercent(MaxPercent(Setters(jb, "Speichere Master", 2), 70),
                              SavePercent(jb.kind))
                     EXCEPT !.pc = "await_save"]
  /\ UNCHANGED notJob

\* save_df_text returns; the call of reconcile_with_progress, up to its
\* first asyncio.sleep(0).
JbSaved ==
  /\ jb.pc = "await_save"
  /\ \E outcome \in Outcomes :
       jb' = IF outcome = "raise" THEN RunnerExcept(jb)
             ELSE [MaxPercent(SetPercent(Setters(jb, "Vorbereitung", 4 + DetailOf(jb)),
                                         ReconcilePercent(jb.kind)),
                              P(jb.kind, 10))
                     EXCEPT !.pc = "await_sleep1"]
  /\ UNCHANGED notJob

\* up to the second asyncio.sleep(0)
JbSlept1 ==
  /\ jb.pc = "await_sleep1"
  /\ jb' = [MaxPercent(Setters(jb, "Lade Vergleichsdaten", 2), P(jb.kind, 35))
             EXCEPT !.pc = "await_sleep2"]
  /\ UNCHANGED notJob

\* job.detail, the call of _reconcile, job_obj.detail, up to load_df_text
JbSlept2 ==
  /\ jb.pc = "await_sleep2"
  /\ jb' = [Setters(jb, jb.phase, 2) EXCEPT !.pc = "await_rc_load"]
  /\ UNCHANGED notJob

\* _reconcile has loaded the table: an empty one is saved at once; else up
\* to the await of the reference names.
JbRcLoaded ==
  /\ jb.pc = "await_rc_load"
  /\ \E outcome \in Outcomes, table \in {"rows", "empty"} :
       jb' = IF outcome = "raise" THEN RwpExcept(jb)
             ELSE [jb EXCEPT !.pc = IF table = "empty" THEN "await_rc_save" ELSE "await_rc_names"]
  /\ UNCHANGED notJob

\* The reference names are there: job_obj.detail, the fuzzy loop, job_obj.stats,
\* up to the first page request of the suspect ids.
JbRcNames ==
  /\ jb.pc = "await_rc_names"
  /\ \E outcome \in Outcomes :
       jb' = IF outcome = "raise" THEN RwpExcept(jb)
             ELSE [SetStats(Setters(jb, jb.phase, 1), {"fuzzy_checked", "fuzzy_removed"})
                     EXCEPT !.pc = "await_rc_ids"]
  /\ UNCHANGED notJob

\* stream_person_ids_by_filter_cursor: a page of suspect ids is answered 200
\* with data and a next cursor: job_obj.detail, and the next page is
\* requested with that cursor.  Nothing in the loop looks at the cursors
\* sent before or counts the pages.
JbRcIdsPage ==
  /\ jb.pc = "await_rc_ids"
  /\ \E next_cursor \in Cursors :
       jb' = IF jb.id_pages < MaxIdPages
             THEN [Setters(jb, jb.phase, 1) EXCEPT !.cursor = next_cursor,
                                                  !.id_pages = @ + 1]
             ELSE [jb EXCEPT !.cursor = next_cursor]
  /\ UNCHANGED notJob

\* The pages of the suspect ids are there (job_obj.detail for a page with
\* data), the last rules, up to the saves.
JbRcIds ==
  /\ jb.pc = "await_rc_ids"
  /\ \E outcome \in Outcomes, pages \in {0, 1} :
       jb' = IF outcome = "raise" THEN RwpExcept(jb)
             ELSE [Setters(jb, jb.phase, pages) EXCEPT !.pc = "await_rc_save"]
  /\ UNCHANGED notJob

\* _reconcile has saved and returns; up to load_df_text of the delete log.
JbRcSaved ==
  /\ jb.pc = "await_rc_save"
  /\ \E outcome \in Outcomes :
       jb' = IF outcome = "raise" THEN RwpExcept(jb)
             ELSE [jb EXCEPT !.pc = "await_dlog"]
  /\ UNCHANGED notJob

\* The delete log is loaded, or the inner except took the old count:
\* job.stats["excluded"], job.stats["delete_log"], up to load_df_text of ready.
JbDlog ==
  /\ jb.pc = "await_dlog"
  /\ jb' = [SetStats(jb, {"excluded", "delete_log"}) EXCEPT !.pc = "await_ready_count"]
  /\ UNCHANGED notJob

\* job.stats["ready"], phase, percent; reconcile_with_progress returns.
JbReadyCount ==
  /\ jb.pc = "await_ready_count"
  /\ jb' = AfterReconcile(MaxPercent(Setters(SetStats(jb, {"ready"}),
                                              "Abgleich abgeschlossen", 2),
                                      P(jb.kind, 100)))
  /\ UNCHANGED notJob

\* The ready table is loaded; build_nf_export, export_to_excel and the last
\* statements of the run.
JbReady ==
  /\ jb.pc = "await_ready"
  /\ \E outcome \in Outcomes :
       jb' = IF outcome = "raise" THEN RunnerExcept(jb)
             ELSE IF jb.kind = "nachfass" THEN NachfassDone(jb)
             ELSE ExportDone(jb)
  /\ UNCHANGED notJob

\* What a poll returns of the job.
Polled(j) ==
  [heartbeat |-> j.heartbeat, done |-> j.done, error |-> j.error, stats |-> j.stats,
   phase |-> j.phase, percent |-> j.percent]

\* The handler of export_progress.
JbPoll ==
  /\ jb.pc # "idle"
  /\ jb' = [jb EXCEPT !.prev = jb.last, !.last = Polled(jb)]
  /\ UNCHANGED notJob

InitJob ==
  /\ now = 0
  /\ REQUEST_COUNTER = 0
  /\ ex = <<>>
  /\ NoTasks
  /\ NoPage
  /\ NoEnrich
  /\ NoMerge
  /\ NoReconcile
  /\ NoTables
  /\ \E kind \in JobKinds : jb = NewJob(kind)

\* The steps of the coroutine of the job.
JbRun ==
  \/ JbStart
  \/ JbFetchPage
  \/ JbFetched
  \/ JbMasterBuilt
  \/ JbSaved
  \/ JbSlept1
  \/ JbSlept2
  \/ JbRcLoaded
  \/ JbRcNames
  \/ JbRcIdsPage
  \/ JbRcIds
  \/ JbRcSaved
  \/ JbDlog
  \/ JbReadyCount
  \/ JbReady

NextJob ==
  \/ JbStart
  \/ JbFetchPage
  \/ JbSaved
  \/ JbFetched
  \/ JbMasterBuilt
  \/ JbSlept1
  \/ JbSlept2
  \/ JbRcLoaded
  \/ JbRcNames
  \/ JbRcIdsPage
  \/ JbRcIds
  \/ JbRcSaved
  \/ JbDlog
  \/ JbReadyCount
  \/ JbReady
  \/ JbPoll

SpecJob == InitJob /\ [][NextJob]_vars

\* The event loop resumes the coroutine of the job whenever the operation it
\* awaits has ended, and every request and database call ends.
SpecJobLive == SpecJob /\ WF_vars(JbRun)

(***************************************************************************)
(* The tables of one prefix (tables("nf")) and two jobs of that prefix     *)
(* that run interleaved.  A table is named by the prefix alone, so both    *)
(* jobs write and read the same master and ready table.  save_df_text is   *)
(* three statements on a pool connection, DROP TABLE, CREATE TABLE and the *)
(* INSERTs in one transaction, each awaited: another coroutine can run     *)
(* between them.  A row is the number of the job whose master it comes     *)
(* from; 0 is a row of an earlier run.                                     *)
(***************************************************************************)
Jobs == {1, 2}

TableNames == {"final", "ready"}

Table(exists, rows) == [exists |-> exists, rows |-> rows]

\* DROP TABLE IF EXISTS
clear_table(t) == Table(FALSE, {})

\* CREATE TABLE IF NOT EXISTS
ensure_table_text(t) == IF t.exists THEN t ELSE Table(TRUE, {})

\* The job that runs next to job j.
Other(j) == CHOOSE k \in Jobs : k # j

\* A job whose master is built: the runner is about to save it.
NewTableJob ==
  [ pc |-> "drop", table |-> "final", df |-> {}, export |-> {}, result |-> "none",
    \* history: a load found the table dropped by the other job
    read_dropped |-> FALSE ]

\* The other job is between the DROP and the end of the INSERTs of its
\* save_df_text of table `name`.
Refilling(t, k, name) ==
  t.job[k].table = name /\ t.job[k].pc \in {"create", "insert"}

\* What save_df_text saves: the master of the job, or the rows _reconcile
\* has left (the rules remove rows; which ones is of no account here).
Saved(t, j) == IF t.job[j].table = "final" THEN {j} ELSE t.job[j].df

\* The job goes on after a save_df_text: _reconcile after the save of the
\* master, the load of the ready table after the save of _reconcile.
AfterSave(t, j) ==
  [t EXCEPT !.job[j].pc = IF t.job[j].table = "final" THEN "load_final" ELSE "load_ready"]

\* save_df_text: await clear_table(conn, table); an empty frame without
\* columns ends here
TbDrop(j) ==
  /\ tb.pc = "run"
  /\ tb.job[j].pc = "drop"
  /\ LET name == tb.job[j].table
         t == [tb EXCEPT ![name] = clear_table(@)]
     IN tb' = IF Saved(tb, j) = {} THEN AfterSave(t, j)
              ELSE [t EXCEPT !.job[j].pc = "create"]
  /\ UNCHANGED notTables

\* save_df_text: await ensure_table_text(conn, table, cols)
TbCreate(j) ==
  /\ tb.pc = "run"
  /\ tb.job[j].pc = "create"
  /\ tb' = [tb EXCEPT ![tb.job[j].table] = ensure_table_text(@), !.job[j].pc = "insert"]
  /\ UNCHANGED notTables

\* save_df_text: the INSERTs, in one transaction.  They raise when the table
\* is gone: the runner ends with the error; reconcile_with_progress catches
\* it and the runner goes on.
TbInsert(j) ==
  /\ tb.pc = "run"
  /\ tb.job[j].pc = "insert"
  /\ LET name == tb.job[j].table IN
       tb' = IF tb[name].exists
             THEN AfterSave([tb EXCEPT ![name].rows = @ \cup Saved(tb, j)], j)
             ELSE IF name = "final"
               THEN [tb EXCEPT !.job[j].pc = "finished", !.job[j].result = "error"]
             ELSE AfterSave(tb, j)
  /\ UNCHANGED notTables

\* load_df_text: the rows of the table, an empty frame when it does not
\* exist
load_df_text(t) == IF t.exists THEN t.rows ELSE {}

\* _reconcile: df = await load_df_text(t["final"]), the rules, and on to the
\* save of the ready table
TbLoadFinal(j) ==
  /\ tb.pc = "run"
  /\ tb.job[j].pc = "load_final"
  /\ tb' = [tb EXCEPT !.job[j].df = load_df_text(tb.final),
                      !.job[j].table = "ready",
                      !.job[j].pc = "drop",
                      !.job[j].read_dropped = @ \/ (~tb.final.exists /\ Refilling(tb, Other(j), "final"))]
  /\ UNCHANGED notTables

\* ready_df = await load_df_text(t["ready"]), and the export of it
TbLoadReady(j) ==
  /\ tb.pc = "run"
  /\ tb.job[j].pc = "load_ready"
  /\ tb' = [tb EXCEPT !.job[j].export = load_df_text(tb.ready),
                      !.job[j].pc = "finished",
                      !.job[j].result = "exported",
                      !.job[j].read_dropped = @ \/ (~tb.ready.exists /\ Refilling(tb, Other(j), "ready"))]
  /\ UNCHANGED notTables

\* The tables an earlier run has left.
OldTables == { Table(FALSE, {}), Table(TRUE, {}), Table(TRUE, {0}) }

InitTables ==
  /\ now = 0
  /\ REQUEST_COUNTER = 0
  /\ ex = <<>>
  /\ NoTasks
  /\ NoPage
  /\ NoEnrich
  /\ NoMerge
  /\ NoReconcile
  /\ NoJob
  /\ \E final \in OldTables, ready \in OldTables :
       tb = [ pc |-> "run", final |-> final, ready |-> ready,
              job |-> [j \in Jobs |-> NewTableJob] ]

NextTables ==
  \/ \E j \in Jobs : TbDrop(j)
  \/ \E j \in Jobs : TbCreate(j)
  \/ \E j \in Jobs : TbInsert(j)
  \/ \E j \in Jobs : TbLoadFinal(j)
  \/ \E j \in Jobs : TbLoadReady(j)

SpecTables == InitTables /\ [][NextTables]_vars

(***************************************************************************)
(* Properties of one executor call (SpecExec).                             *)
(***************************************************************************)
PcRank(pc) ==
  CASE pc = "top" -> 3 [] pc = "sem" -> 2 [] pc = "http" -> 1 [] OTHER -> 0

\* A natural number that every step of a call lowers.
StepsLeft(c) ==
  IF c.pc = "done" THEN 0 ELSE 4 * (c.retries + 1 - c.attempt) + PcRank(c.pc) + 1

\* C2: one executor call issues at most `retries` HTTP requests and then ends
\* with a response or a terminal error: the number of requests never exceeds
\* retries, a call that has not ended can always take a step, every step
\* lowers a natural-number measure, and a call that has ended has a result.
C2_BoundedRetries ==
  /\ [](\A w \in Callers :
          /\ ex[w].requests <= ex[w].retries
          /\ StepsLeft(ex[w]) >= 0
          /\ ex[w].pc # "done" => ENABLED NextExec
          /\ ex[w].pc = "done" => ex[w].result \in {"response", "json_error", "timeout", "failed"})
  /\ [][\A w \in Callers : StepsLeft(ex[w])' < StepsLeft(ex[w])]_vars

\* A call that used every attempt and ended with the terminal error.
C2_Witness ==
  \E w \in Callers :
    ex[w].pc = "done" /\ ex[w].result = "failed" /\ ex[w].requests = ex[w].retries

\* C3: an answer 400, 401, 403, 404, 409 or 422 ends the call at once with
\* that response, in every executor: no sleep and no further attempt follows.
C3_ClientErrorEndsCall ==
  \A w \in Callers :
    (ex[w].answer = "status" /\ ex[w].status \in {400, 401, 403, 404, 409, 422})
      => (ex[w].pc = "done" /\ ex[w].result = "response")

\* C4: an answer with a status in 200..299 ends the call at once, in every
\* executor: no sleep and no further attempt follows.
C4_SuccessEndsCall ==
  \A w \in Callers :
    (ex[w].answer = "status" /\ ex[w].status >= 200 /\ ex[w].status <= 299)
      => ex[w].pc = "done"

\* The executor is in the backoff sleep that follows a 429/5xx answer.
AfterRetryable(c) == c.pc = "sleep" /\ c.answer = "status" /\ IsRetryable(c.status)

\* The delay of a call never decreases (prev_delay is the delay before its
\* latest update) and never exceeds the maximum.
DelayBounded(c) == c.prev_delay <= c.delay /\ c.delay <= MaxDelay

\* C5 as stated: after a 429/5xx answer the executor waits at least
\* max(currentDelay, Retry-After) and sets currentDelay to
\* min(currentDelay * factor, maxDelay); currentDelay never decreases and
\* never exceeds maxDelay.
C5_WaitsMaxOfDelayAndHint ==
  \A w \in Callers :
    /\ DelayBounded(ex[w])
    /\ AfterRetryable(ex[w]) =>
         /\ ex[w].slept >= Max(ex[w].prev_delay, ex[w].hint)
         /\ ex[w].delay = Min((ex[w].prev_delay * BackoffTenths) \div 10, MaxDelay)

\* C5 (amended): after a 429/5xx answer the executor waits at least
\* min(max(currentDelay, Retry-After), 30 s) and sets currentDelay to
\* min(currentDelay * 1.8, 30 s); currentDelay never decreases and never
\* exceeds 30 s.
C5_WaitsCappedMax ==
  \A w \in Callers :
    /\ DelayBounded(ex[w])
    /\ AfterRetryable(ex[w]) =>
         /\ ex[w].slept >= Min(Max(ex[w].prev_delay, ex[w].hint), MaxDelay)
         /\ ex[w].delay = Min((ex[w].prev_delay * BackoffTenths) \div 10, MaxDelay)

\* A 429/5xx answer whose Retry-After is longer than the current delay, and
\* a backoff step that the maximum delay cuts.
C5_Witness ==
  \E w \in Callers :
    /\ AfterRetryable(ex[w])
    /\ ex[w].hint > ex[w].prev_delay
    /\ ex[w].delay = MaxDelay
    /\ (ex[w].prev_delay * BackoffTenths) \div 10 > MaxDelay

\* C6: once the time since the first attempt exceeds the total time budget,
\* the call sends no further HTTP request.
C6_NoRequestAfterBudget ==
  \A w \in Callers :
    ex[w].pc = "http" => ex[w].issued_at - ex[w].t0 <= ex[w].budget

\* C7: after a call in which every attempt was answered with 429 or 5xx, the
\* diagnostic of the terminal error (last_err) names that status.
C7_TerminalErrorNamesStatus ==
  \A w \in Callers :
    (ex[w].pc = "done" /\ ex[w].result = "failed" /\ ex[w].only_retryable)
      => ex[w].last_err = "HTTP"

(***************************************************************************)
(* Properties of the limiter and of the requests behind it (SpecRate).     *)
(***************************************************************************)
\* C8: for any number of concurrent callers of pd_throttle, the grants are
\* serialized (one caller at a time is inside the limiter) and each grant
\* happens at least the minimum interval after the grant before it.
C8_GrantsSpaced ==
  /\ Cardinality({ t \in Tasks : task[t].pc = "throttle_sleep" }) <= 1
  /\ \A t \in Tasks : task[t].pc = "throttle_sleep" => GLOBAL_PD_LOCK = t
  /\ \A i \in 2..Len(grants) : grants[i] - grants[i - 1] >= ThrottleInterval

\* A caller sleeps inside the limiter after an earlier grant while another
\* caller waits for the limiter's lock.
C8_Witness ==
  /\ Len(grants) >= 1
  /\ \E t \in Tasks : task[t].pc = "throttle_sleep" /\ task[t].wake > now
  /\ \E t \in Tasks : task[t].pc = "lock" /\ GLOBAL_PD_LOCK # 0

\* The limiter grants given to task t so far: fetch_one calls pd_throttle once.
GrantsTo(t) == IF task[t].pc \in {"exec", "done"} THEN 1 ELSE 0

\* C9: every HTTP request, each retry attempt included, is preceded by its
\* own limiter grant, so that no two requests start less than the minimum
\* interval apart.
C9_EveryRequestHasOwnGrant ==
  /\ \A w \in Callers : ex[w].requests <= GrantsTo(w)
  /\ \A w, v \in Callers :
       (w # v /\ ex[w].requests > 0 /\ ex[v].requests > 0 /\ ex[w].issued_at >= ex[v].issued_at)
         => ex[w].issued_at - ex[v].issued_at >= ThrottleInterval

(***************************************************************************)
(* Properties of the pagination loops (SpecPage).                          *)
(***************************************************************************)
\* C1: every cursor-pagination loop ends after a bounded number of page
\* requests when the answers repeat a cursor value: with NumCursors cursor
\* values a call sends at most NumCursors + 1 requests (one without a cursor
\* and one for each value), since a further request repeats a cursor.
C1_RepeatedCursorStops == pg.requests <= NumCursors + 1

(***************************************************************************)
(* Properties of the enrichment patch (SpecEnrich).                        *)
(***************************************************************************)
\* C10: build_org_enrichment_patch_v2 is idempotent: when the patch has been
\* applied to the winner (each key of the patch replaces the winner's value
\* for that key) and the patch is computed again with the same loser, the
\* second patch is empty.
C10_SecondPatchEmpty == en.pc = "rebuilt" => DOMAIN en.patch = {}

\* A second run after a first patch that changed labels, address, a scalar
\* and the custom fields.
C10_Witness ==
  /\ en.pc = "rebuilt"
  /\ {"label_ids", "address", "cc_email", "custom_fields"} \subseteq DOMAIN en.first
  /\ en.winner # en.winner0

\* A label entry that is a label id: a non-negative int or a str of digits.
IsLabelId(x) ==
  \/ x.type = "int" /\ x.n >= 0
  \/ x.type = "str" /\ IsDigit(x.s)

\* The label ids of an organization.
LabelIds(org) ==
  IF org.label_ids.type # "list" THEN {}
  ELSE { IntOf(org.label_ids.items[i]) :
           i \in { j \in DOMAIN org.label_ids.items : IsLabelId(org.label_ids.items[j]) } }

\* The address has a value that is not empty.
HasAddress(org) ==
  org.address.type = "dict" /\ ~v2_is_empty(Get(org.address.value))

\* The custom field k has a value that is not empty.
HasEntry(org, k) ==
  org.custom_fields.type = "dict" /\ ~v2_is_empty(Get(org.custom_fields.entries[k]))

FullyPopulated(org) ==
  /\ \A key \in ScalarKeys : ~v2_is_empty(Get(org[key]))
  /\ HasAddress(org)
  /\ \A k \in CfKeys : HasEntry(org, k)

\* label_ids is a list of ints that are label ids.
HasIntLabels(org) ==
  /\ org.label_ids.type = "list"
  /\ \A i \in DOMAIN org.label_ids.items :
       org.label_ids.items[i].type = "int" /\ IsLabelId(org.label_ids.items[i])

\* C12: the enrichment patch is minimal: it has a key only when applying it
\* changes the winner's value for that key, and it is empty whenever the
\* winner has every mergeable field populated and its label set contains
\* every loser label.
C12_PatchMinimal ==
  en.pc = "built" =>
    /\ \A k \in DOMAIN en.patch : ApplyPatch(en.winner, en.patch)[k] # en.winner[k]
    /\ ( /\ FullyPopulated(en.winner)
         /\ HasIntLabels(en.winner)
         /\ HasIntLabels(en.loser)
         /\ LabelIds(en.loser) \subseteq LabelIds(en.winner) )
       => DOMAIN en.patch = {}

(***************************************************************************)
(* Properties of merge_organizations_v2_only (SpecMerge).                  *)
(***************************************************************************)
NoWrites(m) ==
  m.reqs.patch_org = 0 /\ m.reqs.patch_ref = 0 /\ m.reqs.delete = 0

\* C13: when the winner is found and the fetch of the loser answers not
\* found, the merge sends no PATCH, list or DELETE request and returns a
\* summary with loser_deleted = true and winner_patched = false.
C13_LoserGoneShortCircuit ==
  (mg.pc # "idle" /\ mg.w_outcome = "ok" /\ mg.l_outcome = "404") =>
    /\ mg.pc = "done"
    /\ mg.result = "returned"
    /\ mg.summary.loser_deleted
    /\ ~mg.summary.winner_patched
    /\ NoWrites(mg)
    /\ mg.reqs.list = 0

\* The second call of a merge whose first call returned, the loser being gone.
C13_Witness ==
  /\ mg.pc = "done"
  /\ mg.runs = 2
  /\ mg.before = "returned"
  /\ ~mg.args.dry_run
  /\ mg.args.delete_loser
  /\ ~mg.remote0.loser_exists
  /\ mg.w_outcome = "ok"
  /\ mg.l_outcome = "404"

\* The persons (deals) that reference the loser and would be reassigned.
WouldMove(m, kind) ==
  IF Moves(m, kind) THEN Cardinality(m.remote0[kind]) ELSE 0

\* C14: in dry-run mode the merge sends no PATCH and no DELETE and leaves the
\* remote state as it is, and when it returns persons_moved and deals_moved
\* are the numbers of persons and deals that reference the loser and would
\* be reassigned.
C14_DryRunCountsOnly ==
  (mg.pc # "idle" /\ mg.args.dry_run) =>
    /\ NoWrites(mg)
    /\ mg.remote = mg.remote0
    /\ (mg.result = "returned" /\ mg.l_outcome = "ok") =>
         /\ mg.summary.persons_moved = WouldMove(mg, "persons")
         /\ mg.summary.deals_moved = WouldMove(mg, "deals")

\* A dry run over a winner to enrich, two persons, a deal and a loser to delete.
C14_Witness ==
  /\ mg.args.dry_run
  /\ mg.result = "returned"
  /\ mg.remote0.winner_needs
  /\ mg.args.delete_loser
  /\ mg.summary.persons_moved = 2
  /\ mg.summary.deals_moved >= 1

\* A merge failed part-way: the winner was patched, then a listing or the
\* delete of the loser failed.
FailedPartWay(m) ==
  /\ m.pc = "done"
  /\ m.result = "raised"
  /\ m.patched
  /\ m.summary.winner_patched
  /\ m.reqs.list > 0 \/ m.reqs.delete > 0

\* C15: after a merge that fails part-way (the winner patch applied, then a
\* reassignment listing or the delete of the loser fails) the caller gets
\* the summary object, with winner_patched true and loser_deleted false.
C15_SummaryAfterFailure ==
  FailedPartWay(mg) =>
    /\ mg.received = "summary"
    /\ mg.summary.winner_patched
    /\ ~mg.summary.loser_deleted

(***************************************************************************)
(* Properties of _reconcile (SpecReconcile).                               *)
(***************************************************************************)
\* The rows of a table with organization id org.
OfOrg(rows, org) == { i \in DOMAIN rows : rows[i].org = org }

Orgs(rows) == { rows[i].org : i \in DOMAIN rows }

\* C16: after _reconcile, for every organization id of the ready set the
\* number of ready records with that organization id is at most K
\* (PER_ORG_DEFAULT_LIMIT).
C16_AtMostKPerOrg ==
  rc.pc = "done" =>
    \A org \in Orgs(rc.df) : Cardinality(OfOrg(rc.df, org)) <= rc.K

\* The cap removed a record, and an organization is left with K records.
C16_Witness ==
  /\ rc.pc = "done"
  /\ Len(rc.capped) > Len(rc.df)
  /\ \E org \in Orgs(rc.df) : Cardinality(OfOrg(rc.df, org)) = rc.K

\* The log entries for the row rid.
EntriesOf(m, rid) == { k \in DOMAIN m.delete_rows : m.delete_rows[k].rid = rid }

\* The table is the example: 3 records in A, 2 in B, in some order.
IsExample(m) ==
  /\ Len(m.input) = Len(ExampleRows)
  /\ { <<m.input[i].pid, m.input[i].org>> : i \in DOMAIN m.input }
       = { <<ExampleRows[i].pid, ExampleRows[i].org>> : i \in DOMAIN ExampleRows }

\* C17: the cap keeps, for each organization id, the K surviving records
\* with the lowest numeric record ids (all of them when there are fewer) and
\* removes the others, each with one log entry of reason per_org_limit; with
\* 3 records in organization A, 2 in B and K = 2 the ready set has 4 records
\* and the log has 1 entry, for A's highest id.
C17_KeepsLowestIds ==
  rc.pc = "done" =>
    /\ \A org \in Orgs(rc.capped) :
         Cardinality(OfOrg(rc.df, org)) = Min(rc.K, Cardinality(OfOrg(rc.capped, org)))
    /\ \A i \in DOMAIN rc.capped :
         LET r == rc.capped[i] IN
           IF r.rid \in ReadySet(rc)
             THEN \A j \in OfOrg(rc.capped, r.org) :
                    rc.capped[j].rid \notin ReadySet(rc) =>
                      PidSort(r.pid) <= PidSort(rc.capped[j].pid)
             ELSE /\ Cardinality(EntriesOf(rc, r.rid)) = 1
                  /\ \A k \in EntriesOf(rc, r.rid) :
                       rc.delete_rows[k].reason = "per_org_limit"
    /\ (IsExample(rc) /\ rc.K = 2) =>
         /\ Len(rc.df) = 4
         /\ Len(rc.delete_rows) = 1
         /\ rc.delete_rows[1].reason = "per_org_limit"
         /\ rc.delete_rows[1].org = OrgA
         /\ rc.delete_rows[1].pid = <<"3">>

\* The example, loaded with A's highest id first.
C17_Witness ==
  /\ rc.pc = "done"
  /\ IsExample(rc)
  /\ rc.input[1].pid = <<"3">>
  /\ Len(rc.df) = 4

\* C18: _reconcile on two orders of the same rows gives the same ready set
\* and the same delete log (same records, same reason codes), also when
\* record ids are blank, no numbers or repeated.
C18_OrderIndependent ==
  (rc.pc = "done" /\ rc.runs = 2) =>
    /\ ReadySet(rc) = rc.before.ready
    /\ LogSet(rc) = rc.before.log

\* The next-activity date lies in the future or within the last 90 days.
InExclusionWindow(d) ==
  d.kind = "naive" /\ d.day >= -ExclusionWindowDays

\* C19: no record whose next-activity date is in the future or within the
\* trailing exclusion window (the last 90 days) is in the ready set.
C19_DateWindowRemoved ==
  rc.pc = "done" =>
    \A i \in DOMAIN rc.df : ~InExclusionWindow(rc.df[i].next)

\* C20: a record whose next-activity value is empty, unparseable or the zero
\* date is never removed by the date rule: it has no log entry of reason
\* forbidden_activity_date.
C20_DateRuleFailsOpen ==
  rc.pc # "idle" =>
    \A i \in DOMAIN rc.input :
      rc.input[i].next.kind \in {"empty", "zero", "bad"} =>
        \A k \in EntriesOf(rc, rc.input[i].rid) :
          rc.delete_rows[k].reason # "forbidden_activity_date"

\* A table with a zero date, an unparseable date and a future date went
\* through the date rule: the future date is logged, the others are ready.
C20_Witness ==
  /\ rc.pc = "done"
  /\ \E i, j, k \in DOMAIN rc.input :
       /\ rc.input[i].next.kind = "zero"
       /\ rc.input[j].next.kind = "bad"
       /\ rc.input[k].next = DateValue("naive", 1)
       /\ {rc.input[i].rid, rc.input[j].rid} \subseteq ReadySet(rc)
       /\ <<rc.input[k].rid, "forbidden_activity_date">> \in LogSet(rc)

(***************************************************************************)
(* Accounting of _reconcile (SpecReconcile).                               *)
(***************************************************************************)
Rids(rows) == { rows[i].rid : i \in DOMAIN rows }

\* C21: when _reconcile has saved the ready table and the log, every row of
\* the input is either in the ready table and has no log entry, or is not in
\* the ready table and has exactly one log entry; the ready rows and the
\* log entries together are as many as the rows of the input.
C21_ExactlyOnce ==
  rc.pc = "done" =>
    /\ \A rid \in Rids(rc.input) :
         \/ rid \in ReadySet(rc) /\ EntriesOf(rc, rid) = {}
         \/ rid \notin ReadySet(rc) /\ Cardinality(EntriesOf(rc, rid)) = 1
    /\ \A i, j \in DOMAIN rc.df : rc.df[i].rid = rc.df[j].rid => i = j
    /\ Len(rc.df) + Len(rc.delete_rows) = Len(rc.input)

\* A finished run with a ready row and rows removed by two different rules.
C21_Witness ==
  /\ rc.pc = "done"
  /\ rc.df # <<>>
  /\ \E i, j \in DOMAIN rc.delete_rows : rc.delete_rows[i].reason # rc.delete_rows[j].reason

(***************************************************************************)
(* Order of the rules of _reconcile (SpecReconcile).                       *)
(***************************************************************************)
\* The reason codes in the order attribute-presence, date-window, fuzzy
\* organization-duplicate, cross-reference suppression, per-group cap.
ReasonOrder ==
  << "org_art_not_empty", "forbidden_activity_date", "org_match_95", "person_id_match",
     "per_org_limit" >>

ReasonRank(reason) == CHOOSE k \in DOMAIN ReasonOrder : ReasonOrder[k] = reason

\* The rules before the cap that a row of the input matches, as ranks.
MatchedRules(m, r) ==
  { k \in 1..4 :
      \/ k = 1 /\ Strip(r.orgtype) # <<>>
      \/ k = 2 /\ r.next.kind = "naive" /\ r.next.day > 0
      \/ k = 3 /\ OrgMatch(m.reference, r)
      \/ k = 4 /\ r.pid \in m.suspect_ids }

\* C22: the rules run in the order attribute-presence, date-window, fuzzy
\* organization-duplicate, cross-reference suppression, per-group cap, each
\* on the survivors of the one before: in the saved log a row that matches
\* several rules has the reason of the earliest of them and no other entry,
\* a row with the reason of the cap matches none of the rules before it, and
\* the entries of the log are grouped by rule, in that order.
C22_RuleOrder ==
  rc.pc = "done" =>
    /\ \A i \in DOMAIN rc.input :
         LET r == rc.input[i]
             matched == MatchedRules(rc, r)
         IN /\ matched # {} =>
                 /\ EntriesOf(rc, r.rid) # {}
                 /\ \A k \in EntriesOf(rc, r.rid) :
                      \A j \in matched : ReasonRank(rc.delete_rows[k].reason) <= j
            /\ \A k \in EntriesOf(rc, r.rid) :
                 rc.delete_rows[k].reason = "per_org_limit" => matched = {}
    /\ \A k, l \in DOMAIN rc.delete_rows :
         k < l => ReasonRank(rc.delete_rows[k].reason) <= ReasonRank(rc.delete_rows[l].reason)

\* A finished run on a row that three rules match and on another row that
\* a later rule removes.
C22_Witness ==
  /\ rc.pc = "done"
  /\ \E i \in DOMAIN rc.input : Cardinality(MatchedRules(rc, rc.input[i])) >= 3
  /\ \E k, l \in DOMAIN rc.delete_rows :
       ReasonRank(rc.delete_rows[k].reason) < ReasonRank(rc.delete_rows[l].reason)

(***************************************************************************)
(* The rule of the suspect ids and the reference lists (SpecReconcile).    *)
(***************************************************************************)
\* The ids on the pages of the reference lists of the remote system.
RemoteIds(m) ==
  UNION { UNION { m.remote[f][k].ids : k \in DOMAIN m.remote[f] } : f \in 1..NumFilters }

\* Some page request of the stream ended without a payload of status 200.
PageRequestFailed(m) ==
  \E f \in 1..NumFilters : \E k \in DOMAIN m.remote[f] :
    /\ m.remote[f][k].status # "200"
    /\ \A j \in 1..(k - 1) : m.remote[f][j].status = "200"

\* C23: when _reconcile has saved the ready table, no row of it has a Person
\* ID that is on a page of one of the two reference lists of the remote
\* system, also when a page request of a list ended with a status other
\* than 200 or with an executor error.
C23_NoContactedInReady ==
  rc.pc = "done" =>
    \A i \in DOMAIN rc.df : rc.df[i].pid \notin RemoteIds(rc)

(***************************************************************************)
(* The fuzzy rule and names that are equal when normalized (SpecReconcile).*)
(***************************************************************************)
\* The row reaches rule (3): no rule before it removes the row.
ReachesFuzzy(m, r) == MatchedRules(m, r) \cap {1, 2} = {}

\* The row and a name kept in the reference set have the same normalized
\* name, which is not empty.
SameNormalized(m, r) ==
  LET kept == buckets_all(m.reference)
  IN /\ normalize_name(r.org_name) # <<>>
     /\ \E k \in DOMAIN kept : normalize_name(kept[k]) = normalize_name(r.org_name)

\* C24: a row whose normalized organization name equals the normalized name
\* of an entry kept in the reference set is removed by the fuzzy rule with
\* the reason org_match_95, whatever the case and the punctuation of the raw
\* reference name.
C24_ExactMatchRemoved ==
  rc.pc = "done" =>
    \A i \in DOMAIN rc.input :
      (ReachesFuzzy(rc, rc.input[i]) /\ SameNormalized(rc, rc.input[i])) =>
        \E k \in EntriesOf(rc, rc.input[i].rid) : rc.delete_rows[k].reason = "org_match_95"

(***************************************************************************)
(* Properties of a Job (SpecJob).                                          *)
(***************************************************************************)
\* C25: between two polls of a job, a change of its error, done or stats
\* comes with a strictly larger heartbeat.
C25_ChangeBumpsHeartbeat ==
  (jb.pc # "idle" /\ jb.prev # NoPoll) =>
    ((jb.prev.error # jb.last.error \/ jb.prev.done # jb.last.done
        \/ jb.prev.stats # jb.last.stats)
       => jb.last.heartbeat > jb.prev.heartbeat)

\* C26: a job of which a stage has failed ends with done = true and an
\* error that is not empty.
C26_FailedJobHasError ==
  (jb.pc = "finished" /\ jb.failed) => (jb.done /\ jb.error # NoError)

(***************************************************************************)
(* More properties of the pagination loops (SpecPage).                     *)
(***************************************************************************)
\* C27: when the executor gives up on a page request (total time or retries
\* used up) after earlier pages of fetch_persons_by_filter_id_v2 were read,
\* the call returns the records of the earlier pages and does not raise.
C27_SoftStopReturnsPartial ==
  (pg.pc = "done" /\ pg.kind = "fetch_persons" /\ pg.out # <<>>) => pg.result = "returned"

\* C28: a pagination call issues at most the configured maximum of page
\* requests (max_pages, in the model MaxPagesArg), whatever the server
\* answers.
C28_WithinMaxPages == pg.pc # "idle" => pg.requests <= MaxPagesArg

\* C30: in the loops that keep the cursors they have seen, no cursor is sent
\* in two page requests of a call, and a call sends at most one request
\* more than the answers have named distinct cursors.
C30_NoCursorSentTwice ==
  (pg.pc # "idle" /\ pg.kind \in GuardedKinds) =>
    /\ \A i, j \in DOMAIN pg.sent : pg.sent[i] = pg.sent[j] => i = j
    /\ pg.requests <= Cardinality(pg.returned) + 1

\* A call of a guarded loop that an answer naming a cursor again has ended,
\* after a request with each cursor.
C30_Witness ==
  /\ pg.kind \in GuardedKinds
  /\ pg.pc = "done"
  /\ pg.requests = NumCursors + 1
  /\ pg.result = "returned"
  /\ Cardinality(pg.returned) = NumCursors

(***************************************************************************)
(* The request counter (SpecExec).                                         *)
(***************************************************************************)
RECURSIVE Attempts(_)
Attempts(S) ==
  IF S = {} THEN 0
  ELSE LET w == CHOOSE w \in S : TRUE IN ex[w].requests + Attempts(S \ {w})

\* C29: when the executor calls have ended, REQUEST_COUNTER["total"] is the
\* number of HTTP attempts they made, for each of pd_get_with_retry,
\* pd_request_with_retry and pd_get_json_with_retry.
C29_CounterCountsAttempts ==
  (Callers # {} /\ \A w \in Callers : ex[w].pc = "done") => REQUEST_COUNTER = Attempts(Callers)

\* C31: in fetch_persons_by_filter_id_v2 the streak is the number of pages
\* answered last, in a row, that brought no new id (a page that brings one
\* resets it); once max_empty_growth such pages have come in a row the loop
\* has stopped, and no further page is requested.
C31_NoGrowthGuard ==
  /\ [](pg.pc # "idle" /\ pg.kind = "fetch_persons" =>
         /\ pg.no_growth_streak = pg.quiet
         /\ pg.quiet >= MaxEmptyGrowth => pg.pc = "done")
  /\ [][(pg.pc # "idle" /\ pg.kind = "fetch_persons" /\ pg.quiet >= MaxEmptyGrowth)
          => pg'.requests = pg.requests]_vars

\* The guard stopped the loop although the last answer named a fresh cursor.
C31_Witness ==
  /\ pg.pc = "done"
  /\ pg.kind = "fetch_persons"
  /\ pg.result = "returned"
  /\ pg.quiet = MaxEmptyGrowth
  /\ pg.returned \ pg.seen # {}

\* A page with a new id came after a page without one, and the loop went on.
C31_ResetSeen ==
  /\ pg.pc = "loop"
  /\ pg.kind = "fetch_persons"
  /\ pg.requests >= 2
  /\ pg.out # <<>>
  /\ pg.fresh = pg.out
  /\ pg.no_growth_streak = 0

\* C40: the list fetch_persons_by_filter_id_v2 builds never holds an id
\* twice and never an item without an id, and the answer to every request
\* extends it by the ids it names for the first time, in the order of their
\* first appearance, whatever pages the server sends.
C40_DistinctInOrder ==
  /\ [](pg.pc # "idle" /\ pg.kind = "fetch_persons" =>
         /\ \A i, j \in DOMAIN pg.out : i < j => pg.out[i] # pg.out[j]
         /\ 0 \notin Range(pg.out))
  /\ [][pg.pc # "idle" /\ pg.kind = "fetch_persons" =>
          IF pg'.requests > pg.requests
            THEN pg'.out = pg.out \o pg'.fresh
            ELSE pg'.out = pg.out]_vars

\* Pages that named ids again (repeated or overlapping pages) were answered,
\* and the list was returned with each id once.
C40_Witness ==
  /\ pg.pc = "done"
  /\ pg.kind = "fetch_persons"
  /\ pg.result = "returned"
  /\ pg.repeated
  /\ pg.requests >= 2
  /\ Len(pg.out) = NumIds

\* The references to the loser that the merge is asked to reassign.
ToReassign(m) == WouldMove(m, "persons") + WouldMove(m, "deals")

\* C32: the write requests of a merge that is no dry run come in the order
\* PATCH of the winner (first, and only when the patch is not empty), then
\* the reassignment PATCHes, then DELETE of the loser; the DELETE is sent at
\* most once, after a reassignment request for every person and deal that
\* references the loser, and nothing is sent after it.
C32_WriteOrder ==
  (mg.pc # "idle" /\ ~mg.args.dry_run) =>
    LET w == mg.writes IN
      /\ \A i \in DOMAIN w : w[i] = "patch_org" => i = 1 /\ mg.remote0.winner_needs
      /\ \A i \in DOMAIN w : w[i] = "delete" => i = Len(w)
      /\ mg.reqs.delete <= 1
      /\ (mg.remote0.winner_needs /\ Len(w) > 0) => w[1] = "patch_org"
      /\ mg.reqs.delete = 1 => mg.reqs.patch_ref = ToReassign(mg)

\* A merge patched the winner, reassigned a person and a deal, and deleted
\* the loser.
C32_Witness ==
  /\ mg.pc = "done"
  /\ mg.result = "returned"
  /\ ~mg.args.dry_run
  /\ mg.remote0.persons # {}
  /\ mg.remote0.deals # {}
  /\ Len(mg.writes) >= 4
  /\ mg.writes[1] = "patch_org"
  /\ mg.writes[Len(mg.writes)] = "delete"

\* A reassignment PATCH of this call was answered with a status other than
\* 200: it was sent and not counted.
ReassignFailed(m) ==
  m.reqs.patch_ref > m.summary.persons_moved + m.summary.deals_moved

\* C36: when a reassignment PATCH is answered with a status other than 200,
\* the merge sends no DELETE of the loser.
C36_NoDeleteAfterFailedReassign ==
  (mg.pc # "idle" /\ ~mg.args.dry_run /\ ReassignFailed(mg)) => mg.reqs.delete = 0

\* The PATCH of the winner was sent and not answered 200.
PatchFailed(m) ==
  m.reqs.patch_org > 0 /\ ~m.summary.winner_patched

\* C37: when the PATCH of the winner fails (a status other than 200, or the
\* executor raises), the merge ends with the exception, sends no listing,
\* reassignment or DELETE request, and the loser and the records that
\* reference it are as they were.
C37_FailedPatchStops ==
  (mg.pc # "idle" /\ PatchFailed(mg)) =>
    /\ mg.pc = "done"
    /\ mg.result = "raised"
    /\ mg.writes = <<"patch_org">>
    /\ mg.reqs.list = 0
    /\ mg.remote.persons = mg.remote0.persons
    /\ mg.remote.deals = mg.remote0.deals
    /\ mg.remote.loser_exists = mg.remote0.loser_exists

\* The PATCH of the winner failed in a merge that had persons to reassign and
\* a loser to delete.
C37_Witness ==
  /\ PatchFailed(mg)
  /\ mg.args.move_persons
  /\ mg.args.delete_loser
  /\ mg.remote0.persons # {}
  /\ mg.remote0.loser_exists

\* C38: after a merge has returned or raised, the client that http_client()
\* returns is open.
C38_ClientStaysOpen ==
  (mg.pc = "done") => mg.http = "open"

\* C33: when a poll has read done = true, the next poll reads the same phase,
\* percent, error and stats: nothing of the job changes after done.
C33_DoneIsFinal ==
  (jb.pc # "idle" /\ jb.prev # NoPoll /\ jb.prev.done) =>
    /\ jb.last.phase = jb.prev.phase
    /\ jb.last.percent = jb.prev.percent
    /\ jb.last.error = jb.prev.error
    /\ jb.last.stats = jb.prev.stats

\* C34: every started job comes to done = true.
C34_EventuallyDone == <>(jb.done)

\* C39: every percent a poll reads is within 0..100, and is at least the
\* percent the poll before it read.
C39_PercentMonotonic ==
  (jb.pc # "idle") =>
    /\ jb.percent \in 0..100
    /\ jb.last # NoPoll => jb.last.percent \in 0..100
    /\ jb.prev # NoPoll => jb.last.percent >= jb.prev.percent

\* A run of neukontakte polled while the master is saved and, before, while
\* it was built: the build set 70 and the runner then 65, with no await in
\* between.
C39_Witness ==
  /\ jb.pc = "await_save"
  /\ jb.kind = "neukontakte"
  /\ jb.prev # NoPoll
  /\ jb.prev.percent = 55
  /\ jb.last.percent = 65

(***************************************************************************)
(* Properties of two jobs on the tables of one prefix (SpecTables).        *)
(***************************************************************************)
\* C35: of two interleaved jobs of one prefix, each reconciles and exports
\* only rows of the master it built itself, and no load of a job finds a
\* table that the other job has dropped and not yet refilled.
C35_JobsIsolated ==
  (tb.pc # "idle") =>
    \A j \in Jobs :
      /\ tb.job[j].df \subseteq {j}
      /\ tb.job[j].export \subseteq {j}
      /\ ~tb.job[j].read_dropped

====
